---- MODULE Spec2Model ----
(***************************************************************************)
(* The ingestion side of claudium: EventServer (server.py) and the event   *)
(* decoder parse_event (src/claudium/entities.py).                         *)
(*                                                                         *)
(* Threads: the main thread (start(), stop(), and the render loop's        *)
(* drain_events()), the accept thread (_accept_loop) and one handler       *)
(* thread per accepted connection (_handle_client).  The filesystem entry  *)
(* at sock_path, the clients and the I/O errors are the environment.       *)
(***************************************************************************)
EXTENDS Integers, Sequences, FiniteSets, TLC

\* ------------------------------------------------------------------ bounds
MaxConns == 2        \* client connections of one run
MaxStops == 2        \* calls of stop() in one run
FloodExtra == 2      \* records beyond the queue capacity in the flood payloads
MaxAgents == 1       \* agent_start events of one run
MaxEvents == 3       \* events of one run of the aquarium
MaxTicks == 3        \* frames counted by self.tick, and the frames of a short run
SessionExtra == 3    \* events of a long session beyond the capacity of the log
RaceWindow == 2      \* events at the end of a session that two threads share
MaxDrift == 2       \* cells beyond a margin within which a fish still turns at random
MaxSelectable == 2   \* sub-agents of a run in which fish are selected
MaxWild == 1         \* creatures a frame may turn around or send jumping at random

\* ------------------------------------------------------- program constants
QueueMaxLen == 500   \* deque(maxlen=500)

Conns == 1..MaxConns
NoHolder == [who |-> "free", c |-> 0]
Render == [who |-> "render", c |-> 0]
Handler(c) == [who |-> "handler", c |-> c]

\* --------------------------------------------------------------- the text
\* One record as a client wrote it.  json says what json.loads makes of the
\* text: "object" (a dict, whose items are obj), "invalid" (JSONDecodeError),
\* "array" (any JSON value that is not an object: list, number, string,
\* null, true) and "blank" (only whitespace).  usep: the text holds a
\* character other than "\n" that str.splitlines treats as a line boundary
\* (a raw U+2028 inside a JSON string, "\r" between two tokens).
Rec(json, obj, usep) == [json |-> json, obj |-> obj, usep |-> usep]

NoObj == [none |-> ""]
RStart == Rec("object", [event |-> "agent_start", agent_id |-> "a1", agent_type |-> "Explore"], FALSE)
RStop == Rec("object", [event |-> "agent_stop", agent_id |-> "a1", error |-> TRUE], FALSE)
RToolEnd == Rec("object", [event |-> "tool_end", tool_name |-> "Bash"], FALSE)
RFull == Rec("object", [event |-> "tool_end", agent_id |-> "a1", agent_type |-> "Plan",
                         description |-> "d", error |-> TRUE, tool_name |-> "Bash",
                         tool_input_summary |-> "ls", success |-> FALSE,
                         task_subject |-> "t", timestamp |-> 7], FALSE)
RNoEvent == Rec("object", [agent_id |-> "a1"], FALSE)
REmptyEvent == Rec("object", [event |-> "", agent_id |-> "a1"], FALSE)
RInvalid == Rec("invalid", NoObj, FALSE)
RArray == Rec("array", NoObj, FALSE)
RBlank == Rec("blank", NoObj, FALSE)
RSep == Rec("object", [event |-> "tool_start", description |-> "a b"], TRUE)

\* What a client sends on one connection: the records in order, and whether
\* the last one is followed by "\n".
Payload(recs, term) == [recs |-> recs, term |-> term]

Payloads ==
    { Payload(<<RStart, RStop>>, TRUE),
      Payload(<<RToolEnd, RFull>>, TRUE),
      Payload(<<RStart, RInvalid, RToolEnd>>, TRUE),
      Payload(<<RArray, RStart>>, TRUE),
      Payload(<<RNoEvent, REmptyEvent, RBlank>>, TRUE),
      Payload(<<RStart, RToolEnd>>, FALSE),
      Payload(<<RStop, RInvalid>>, FALSE),
      Payload(<<RSep>>, TRUE),
      Payload(<<>>, TRUE) }

\* What the clients of the concurrent runs send: well-formed records only.
ConcPayloads ==
    { Payload(<<RStart, RStop>>, TRUE),
      Payload(<<RToolEnd>>, TRUE) }

FloodPayloads ==
    { Payload([i \in 1..n |-> RToolEnd], TRUE) :
        n \in (QueueMaxLen - 1)..(QueueMaxLen + FloodExtra) }

\* A split that keeps only the lines a "\n" ends.
splitlinesTerminated(buf) ==
    IF buf.term \/ buf.recs = <<>> THEN buf.recs
    ELSE SubSeq(buf.recs, 1, Len(buf.recs) - 1)

\* buf.decode("utf-8", errors="replace").splitlines() of the text received:
\* every record is one line, whether or not a "\n" follows the last one; a
\* record holding another line boundary is cut in two fragments, neither of
\* which is JSON.
Cuts(recs, i) == Cardinality({j \in 1..i : recs[j].usep})

splitlines(buf) ==
    IF \A i \in 1..Len(buf.recs) : ~buf.recs[i].usep THEN buf.recs
    ELSE [p \in 1..(Len(buf.recs) + Cuts(buf.recs, Len(buf.recs))) |->
            LET i == CHOOSE j \in 1..Len(buf.recs) :
                        j + Cuts(buf.recs, j - 1) <= p /\ p <= j + Cuts(buf.recs, j)
            IN IF buf.recs[i].usep THEN RInvalid ELSE buf.recs[i]]

\* ---------------------------------------------------------------- decoding
PyNone == "<None>"
Get(d, k, default) == IF k \in DOMAIN d THEN d[k] ELSE default
Truthy(v) == v \notin {"", PyNone}

\* d.get("agent_id") with its default left out.
EventAgentIdNone(d) ==
    [kind |-> d.event,
     agent_id |-> Get(d, "agent_id", PyNone),
     agent_type |-> Get(d, "agent_type", ""),
     description |-> Get(d, "description", ""),
     error |-> Get(d, "error", FALSE),
     tool_name |-> Get(d, "tool_name", ""),
     tool_input_summary |-> Get(d, "tool_input_summary", ""),
     success |-> Get(d, "success", TRUE),
     task_subject |-> Get(d, "task_subject", ""),
     timestamp |-> Get(d, "timestamp", 0)]

\* entities.Event: the dataclass and the defaults parse_event passes.
Event(d) ==
    [kind |-> d.event,
     agent_id |-> Get(d, "agent_id", ""),
     agent_type |-> Get(d, "agent_type", ""),
     description |-> Get(d, "description", ""),
     error |-> Get(d, "error", FALSE),
     tool_name |-> Get(d, "tool_name", ""),
     tool_input_summary |-> Get(d, "tool_input_summary", ""),
     success |-> Get(d, "success", TRUE),
     task_subject |-> Get(d, "task_subject", ""),
     timestamp |-> Get(d, "timestamp", 0)]

ParseNone == [tag |-> "none"]
ParseRaise == [tag |-> "raise"]
ParseEvent(ev) == [tag |-> "event", ev |-> ev]

\* parse_event(raw): None on a JSONDecodeError; d.get on a value that is not
\* a dict raises AttributeError, which the except clause does not name.
parse_event(raw) ==
    IF raw.json = "invalid" THEN ParseNone
    ELSE IF raw.json # "object" THEN ParseRaise
    ELSE IF ~Truthy(Get(raw.obj, "event", PyNone)) THEN ParseNone
    ELSE ParseEvent(Event(raw.obj))

\* --------------------------------------------------------- the aquarium
\* Positions and speeds are kept in twentieths of a character cell, so that
\* every step the code takes (0.1 for the slowest fish, 0.25 for a rising
\* bubble) is a whole number of units.
Scale == 20
Tenths(n) == n * (Scale \div 10)

\* self.stdscr.getmaxyx(): a narrow terminal.
Height == 24
Width == 20

SURFACE_ROW == 4
OCEAN_TOP == SURFACE_ROW + 2
PANEL_HEIGHT == 6
ocean_bottom(h) == h - 3 - PANEL_HEIGHT

LogCap == 200            \* if len(self.event_log) > 200
ToolsMilestone == 100    \* self.total_tools >= 100
JellyfishBurst == 5      \* for _ in range(5)
AgentsMilestone == 10    \* self.total_agents >= 10
FishSchool == 4          \* for _ in range(4)
BubbleMaxAge == 30       \* tb.age < 30
ToolCreatureMaxAge == 40 \* tc.age < 40
JumpDuration == 30       \* creature.jump_duration = 30

\* FISH_ARTS[art_idx][2]: the width of the art.
FishArtWidth(art_idx) == IF art_idx = 1 THEN 6 ELSE IF art_idx = 4 THEN 15 ELSE 7
SailboatWidth == 11      \* SAILBOAT_ART[2]
DolphinWidth == 12       \* DOLPHIN_ART[2]

\* str.startswith over the names the model uses.
StartsWith(s, prefix) ==
    <<s, prefix>> \in
        { <<"mcp__codex__codex", "mcp__">>, <<"mcp__codex__codex", "mcp__codex__">>,
          <<"mcp__notion__search", "mcp__">>,
          <<"feature-dev:code-architect", "feature-dev:">>,
          <<"superpowers:brainstorm", "superpowers:">> }

\* _AGENT_ART_MAP and agent_type_to_art_idx.
AGENT_ART_MAP ==
    [t \in {"Explore", "general-purpose", "Plan", "code-reviewer", "code-simplifier"} |->
        IF t = "Explore" THEN 0 ELSE IF t = "general-purpose" THEN 1 ELSE 2]

agent_type_to_art_idx_plain(agent_type) ==
    IF agent_type \in DOMAIN AGENT_ART_MAP THEN AGENT_ART_MAP[agent_type]
    ELSE IF StartsWith(agent_type, "feature-dev:") THEN 3
    ELSE 1

agent_type_to_art_idx(agent_type) ==
    IF agent_type \in DOMAIN AGENT_ART_MAP THEN AGENT_ART_MAP[agent_type]
    ELSE IF StartsWith(agent_type, "feature-dev:") THEN 3
    ELSE IF StartsWith(agent_type, "superpowers:") THEN 3
    ELSE 1

\* A mapping that knows no sailboat.
mcp_tool_to_creature_type_all_dolphins(tool_name) ==
    IF ~StartsWith(tool_name, "mcp__") THEN PyNone ELSE "dolphin"

\* mcp_tool_to_creature_type: None for a tool that is not an MCP tool.
mcp_tool_to_creature_type(tool_name) ==
    IF ~StartsWith(tool_name, "mcp__") THEN PyNone
    ELSE IF StartsWith(tool_name, "mcp__codex__") THEN "sailboat"
    ELSE "dolphin"

\* x or y: the first operand unless it is the empty string.
Or(x, y) == IF x = "" THEN y ELSE x

\* A caption built from two strings by an f-string and a slice; the empty
\* sequence is the empty caption.
Caption(a, b) == <<a, b>>
NoCaption == <<>>

\* entities.Fish.  uid is the identity of the object: 0 for the main fish,
\* the number of the agent_start that created it for the others.
Fish(uid, agent_id, label, status, x, y, speed, art_idx) ==
    [uid |-> uid, agent_id |-> agent_id, label |-> label, status |-> status,
     x |-> x, y |-> y, speed |-> speed, art_idx |-> art_idx, direction |-> 1,
     alive |-> TRUE, flip |-> FALSE, last_tool |-> NoCaption]

\* entities.ToolBubble
ToolBubble(x, y, tool_name) == [x |-> x, y |-> y, tool_name |-> tool_name, age |-> 0]

\* entities.TaskCoral
TaskCoral(subject, completed) == [subject |-> subject, completed |-> completed]

\* entities.Creature
Creature(creature_type, tool_name, y, speed, agent_id) ==
    [creature_type |-> creature_type, tool_name |-> tool_name, x |-> -25 * Scale,
     y |-> y, speed |-> speed, direction |-> 1, alive |-> TRUE,
     agent_id |-> agent_id, leaving |-> FALSE, jumping |-> FALSE,
     jump_tick |-> 0, jump_duration |-> 0, jump_base_y |-> 0, jump_apex_y |-> 0]

\* entities.ToolCreature
ToolCreature(x, y, art_idx, speed, direction) ==
    [x |-> x, y |-> y, art_idx |-> art_idx, speed |-> speed,
     direction |-> direction, age |-> 0]

\* entities.AmbientCreature: its kind; where it drifts is not kept.
AmbientCreature(kind) == [kind |-> kind]

\* entities.EventLogEntry.  WallClock stands for a reading of time.time().
WallClock == -1
EventLogEntry(timestamp, kind, detail) ==
    [timestamp |-> timestamp, kind |-> kind, detail |-> detail]

\* The tools whose calls SessionStats.tool_counts counts; a tool that is not
\* a key of the dict counts 0.
ToolNames == {"", "Read", "Bash", "mcp_x", "mcp__codex__codex", "mcp__notion__search"}

\* random.uniform(0.3, 0.5) for the main fish.
MainSpeeds == {Tenths(4)}

Repeat(x, n) == [i \in 1..n |-> x]

\* Aquarium.__init__ with _setup_ambient and _setup_main_fish: jellies, small
\* fish and birds as drawn by random.randint, and the main fish in the middle
\* of the ocean.
NewAquarium(jellies, smallFish, birds, mainSpeed) ==
    [tick |-> 0,
     fishes |-> <<>>,
     tool_bubbles |-> <<>>,
     creatures |-> <<>>,
     task_corals |-> <<>>,
     main_fish |-> Fish(0, "__main__", "Claude", "working", (Width * Scale) \div 2,
                        ((OCEAN_TOP + ocean_bottom(Height)) * Scale) \div 2,
                        mainSpeed, 4),
     tool_creatures |-> <<>>,
     ambient_creatures |-> Repeat(AmbientCreature("jellyfish"), jellies)
                           \o Repeat(AmbientCreature("fish"), smallFish)
                           \o Repeat(AmbientCreature("bird"), birds),
     total_agents |-> 0,
     total_tools |-> 0,
     event_log |-> <<>>,
     stats |-> [tool_counts |-> [t \in ToolNames |-> 0], total_events |-> 0,
                error_count |-> 0],
     milestones_triggered |-> {},
     lock |-> "free",
     selected_fish_idx |-> -1,
     panel_mode |-> "log"]

Aquariums ==
    { NewAquarium(2, 2, 1, sp) : sp \in MainSpeeds } \cup
    { NewAquarium(3, 3, 2, sp) : sp \in MainSpeeds }

\* ------------------------------------------- the aquarium: its handlers
\* The handlers are functions from the aquarium before to the aquarium after;
\* r holds the values the handler draws from random.
Max(x, y) == IF x >= y THEN x ELSE y
Min(S) == CHOOSE x \in S : \A y \in S : x <= y
LastN(s, n) == IF Len(s) <= n THEN s ELSE SubSeq(s, Len(s) - n + 1, Len(s))

\* The indices of the fish that carry agent_id, and the first of them (0: none).
FishOf(a, agent_id) == {i \in DOMAIN a.fishes : a.fishes[i].agent_id = agent_id}
FirstFishOf(a, agent_id) == IF FishOf(a, agent_id) = {} THEN 0 ELSE Min(FishOf(a, agent_id))

\* The indices of the creatures of (agent_id, tool_name) that are not leaving.
ActiveCreatures(a, agent_id, tool_name) ==
    {i \in DOMAIN a.creatures :
        /\ a.creatures[i].agent_id = agent_id
        /\ a.creatures[i].tool_name = tool_name
        /\ ~a.creatures[i].leaving}

\* The indices of the task corals of a subject.
CoralsOf(a, subject) == {i \in DOMAIN a.task_corals : a.task_corals[i].subject = subject}

on_agent_start(a, ev, r) ==
    LET fish == Fish(a.total_agents + 1, ev.agent_id, Or(ev.description, ev.agent_type),
                     "spawning", -10 * Scale, r.y, r.speed,
                     agent_type_to_art_idx(ev.agent_type))
    IN [a EXCEPT !.fishes = Append(@, fish), !.total_agents = @ + 1]

\* An agent_stop that counts no error.
on_agent_stop_uncounted(a, ev) ==
    LET stopped(f) ==
            IF f.agent_id # ev.agent_id THEN f
            ELSE IF ev.error THEN [f EXCEPT !.status = "error", !.flip = TRUE, !.speed = Tenths(1)]
            ELSE [f EXCEPT !.status = "done", !.speed = Max(@, Tenths(6))]
    IN [a EXCEPT !.fishes = [i \in DOMAIN a.fishes |-> stopped(a.fishes[i])]]

\* An agent_stop that also looks at the main fish.
on_agent_stop_with_main(a, ev) ==
    LET stopped(f) ==
            IF f.agent_id # ev.agent_id THEN f
            ELSE IF ev.error THEN [f EXCEPT !.status = "error", !.flip = TRUE, !.speed = Tenths(1)]
            ELSE [f EXCEPT !.status = "done", !.speed = Max(@, Tenths(6))]
        hits == Cardinality(FishOf(a, ev.agent_id))
    IN [a EXCEPT !.fishes = [i \in DOMAIN a.fishes |-> stopped(a.fishes[i])],
                 !.main_fish = stopped(a.main_fish),
                 !.stats.error_count = IF ev.error THEN @ + hits ELSE @]

\* An agent_stop without error that puts a fish in error back to work.
on_agent_stop_resumes(a, ev) ==
    LET stopped(f) ==
            IF f.agent_id # ev.agent_id THEN f
            ELSE IF ev.error THEN [f EXCEPT !.status = "error", !.flip = TRUE, !.speed = Tenths(1)]
            ELSE IF f.status = "error" THEN [f EXCEPT !.status = "working"]
            ELSE [f EXCEPT !.status = "done", !.speed = Max(@, Tenths(6))]
        hits == Cardinality(FishOf(a, ev.agent_id))
    IN [a EXCEPT !.fishes = [i \in DOMAIN a.fishes |-> stopped(a.fishes[i])],
                 !.stats.error_count = IF ev.error THEN @ + hits ELSE @]

\* for f in self.fishes: if f.agent_id == ev.agent_id: ...  (every fish of
\* that id, whatever its status)
on_agent_stop(a, ev) ==
    LET stopped(f) ==
            IF f.agent_id # ev.agent_id THEN f
            ELSE IF ev.error THEN [f EXCEPT !.status = "error", !.flip = TRUE, !.speed = Tenths(1)]
            ELSE [f EXCEPT !.status = "done", !.speed = Max(@, Tenths(6))]
        hits == Cardinality(FishOf(a, ev.agent_id))
    IN [a EXCEPT !.fishes = [i \in DOMAIN a.fishes |-> stopped(a.fishes[i])],
                 !.stats.error_count = IF ev.error THEN @ + hits ELSE @]

\* An MCP tool call that is counted in total_tools only.
on_mcp_tool_uncounted(a, ev, creature_type, r) ==
    LET y == IF creature_type = "sailboat" THEN (SURFACE_ROW - 3) * Scale ELSE r.dolphin_y
        speed == IF creature_type = "sailboat" THEN Tenths(2) ELSE r.dolphin_speed
    IN [a EXCEPT !.creatures = Append(@, Creature(creature_type, ev.tool_name, y, speed,
                                                   ev.agent_id)),
                 !.total_tools = @ + 1]

on_mcp_tool(a, ev, creature_type, r) ==
    LET y == IF creature_type = "sailboat" THEN (SURFACE_ROW - 3) * Scale ELSE r.dolphin_y
        speed == IF creature_type = "sailboat" THEN Tenths(2) ELSE r.dolphin_speed
    IN [a EXCEPT !.creatures = Append(@, Creature(creature_type, ev.tool_name, y, speed,
                                                   ev.agent_id)),
                 !.total_tools = @ + 1,
                 !.stats.tool_counts[ev.tool_name] = @ + 1]

\* A tool_start whose tool creature is drawn for the main fish as well.
on_tool_start_spawns_for_main(a, ev, r) ==
    LET creature_type == mcp_tool_to_creature_type(ev.tool_name)
        parent == FirstFishOf(a, ev.agent_id)
        target == IF parent = 0 THEN a.main_fish ELSE a.fishes[parent]
        bx == target.x + r.off
        by == target.y - 1 * Scale
        summary == Or(ev.tool_input_summary, ev.tool_name)
        captioned ==
            IF parent = 0
            THEN [a EXCEPT !.main_fish.last_tool = Caption(ev.tool_name, summary)]
            ELSE [a EXCEPT !.fishes[parent].last_tool = Caption(ev.tool_name, summary)]
        bubbled ==
            [captioned EXCEPT
                !.tool_bubbles = Append(@, ToolBubble(bx, by, Caption(ev.tool_name, summary))),
                !.total_tools = @ + 1,
                !.stats.tool_counts[ev.tool_name] = @ + 1]
        cy == IF r.art_idx = 2 THEN ocean_bottom(Height) * Scale ELSE by + r.coff
    IN IF creature_type # PyNone THEN on_mcp_tool(a, ev, creature_type, r)
       ELSE IF r.spawn
       THEN [bubbled EXCEPT !.tool_creatures =
                Append(@, ToolCreature(bx + r.coff, cy, r.art_idx, r.creature_speed,
                                       -target.direction))]
       ELSE bubbled

on_tool_start(a, ev, r) ==
    LET creature_type == mcp_tool_to_creature_type(ev.tool_name)
        parent == FirstFishOf(a, ev.agent_id)
        target == IF parent = 0 THEN a.main_fish ELSE a.fishes[parent]
        bx == target.x + r.off
        by == target.y - 1 * Scale
        summary == Or(ev.tool_input_summary, ev.tool_name)
        captioned ==
            IF parent = 0
            THEN [a EXCEPT !.main_fish.last_tool = Caption(ev.tool_name, summary)]
            ELSE [a EXCEPT !.fishes[parent].last_tool = Caption(ev.tool_name, summary)]
        bubbled ==
            [captioned EXCEPT
                !.tool_bubbles = Append(@, ToolBubble(bx, by, Caption(ev.tool_name, summary))),
                !.total_tools = @ + 1,
                !.stats.tool_counts[ev.tool_name] = @ + 1]
        cy == IF r.art_idx = 2 THEN ocean_bottom(Height) * Scale ELSE by + r.coff
    IN IF creature_type # PyNone THEN on_mcp_tool(a, ev, creature_type, r)
       ELSE IF parent # 0 /\ r.spawn
       THEN [bubbled EXCEPT !.tool_creatures =
                Append(@, ToolCreature(bx + r.coff, cy, r.art_idx, r.creature_speed,
                                       -target.direction))]
       ELSE bubbled

\* A task_completed that never looks for the subject among the corals.
on_task_completed_untracked(a, ev) ==
    [a EXCEPT !.task_corals = Append(@, TaskCoral(ev.task_subject, TRUE))]

on_task_completed(a, ev) ==
    IF CoralsOf(a, ev.task_subject) # {}
    THEN [a EXCEPT !.task_corals[Min(CoralsOf(a, ev.task_subject))].completed = TRUE]
    ELSE [a EXCEPT !.task_corals = Append(@, TaskCoral(ev.task_subject, TRUE))]

\* A tool_end that matches on the tool name alone.
on_creature_end_any_agent(a, ev) ==
    LET active == {i \in DOMAIN a.creatures :
                      a.creatures[i].tool_name = ev.tool_name /\ ~a.creatures[i].leaving}
    IN IF active = {} THEN a
       ELSE [a EXCEPT !.creatures[Min(active)] =
                [@ EXCEPT !.leaving = TRUE, !.speed = Max(@, Tenths(6)), !.jumping = FALSE]]

\* An end of a call that leaves a jump of the creature going on.
on_creature_end_keeps_jumping(a, ev) ==
    LET active == ActiveCreatures(a, ev.agent_id, ev.tool_name) IN
    IF active = {} THEN a
    ELSE [a EXCEPT !.creatures[Min(active)] =
             [@ EXCEPT !.leaving = TRUE, !.speed = Max(@, Tenths(6))]]

on_creature_end(a, ev) ==
    LET active == ActiveCreatures(a, ev.agent_id, ev.tool_name) IN
    IF active = {} THEN a
    ELSE [a EXCEPT !.creatures[Min(active)] =
             [@ EXCEPT !.leaving = TRUE, !.speed = Max(@, Tenths(6)), !.jumping = FALSE]]

\* The detail of a log entry: the pieces its f-string is made of.
Detail(ev) ==
    CASE ev.kind = "agent_start" -> <<ev.agent_type, Or(ev.description, "started")>>
      [] ev.kind = "agent_stop" -> <<ev.agent_type, IF ev.error THEN "ERROR" ELSE "done">>
      [] ev.kind = "tool_start" -> <<ev.tool_name, Or(ev.tool_input_summary, ev.tool_name)>>
      [] ev.kind = "tool_end" -> <<ev.tool_name, IF ~ev.success THEN "fail" ELSE "ok">>
      [] ev.kind = "task_completed" -> <<"task", ev.task_subject>>
      [] ev.kind = "milestone" -> <<Or(ev.description, "milestone reached")>>
      [] OTHER -> <<ev.kind>>

\* A log that is never cut.
record_event_uncapped(a, ev) ==
    [a EXCEPT
        !.event_log = Append(@, EventLogEntry(IF ev.timestamp = 0 THEN WallClock ELSE ev.timestamp,
                                              ev.kind, Detail(ev))),
        !.stats.total_events = @ + 1]

\* _record_event: timestamp = ev.timestamp or time.time()
record_event(a, ev) ==
    [a EXCEPT
        !.event_log = LastN(Append(@, EventLogEntry(IF ev.timestamp = 0 THEN WallClock
                                                    ELSE ev.timestamp,
                                                    ev.kind, Detail(ev))), LogCap),
        !.stats.total_events = @ + 1]

\* The events _check_milestones makes up.
MilestoneEvent(description) ==
    Event([event |-> "milestone", timestamp |-> WallClock, description |-> description])

\* A test of the tools milestone that forgets it has fired.
tools_due_again(a) == a.total_tools >= ToolsMilestone

\* _check_milestones, its two halves: the test of each milestone and what it
\* does when the test passes.
tools_due(a) ==
    a.total_tools >= ToolsMilestone /\ "tools_100" \notin a.milestones_triggered

tools_fire(a) ==
    record_event(
        [a EXCEPT !.milestones_triggered = @ \cup {"tools_100"},
                  !.ambient_creatures = @ \o Repeat(AmbientCreature("jellyfish"), JellyfishBurst)],
        MilestoneEvent("100 tools reached! Ocean comes alive!"))

agents_due(a) ==
    a.total_agents >= AgentsMilestone /\ "agents_10" \notin a.milestones_triggered

agents_fire(a) ==
    record_event(
        [a EXCEPT !.milestones_triggered = @ \cup {"agents_10"},
                  !.ambient_creatures = @ \o Repeat(AmbientCreature("fish"), FishSchool)],
        MilestoneEvent("10 agents spawned! Fish school appears!"))

check_tools(a) == IF tools_due(a) THEN tools_fire(a) ELSE a
check_agents(a) == IF agents_due(a) THEN agents_fire(a) ELSE a
check_milestones(a) == check_agents(check_tools(a))

\* _handle_event up to _record_event: the handler of the event's kind.
dispatch(a, ev, r) ==
    CASE ev.kind = "agent_start" -> on_agent_start(a, ev, r)
      [] ev.kind = "agent_stop" -> on_agent_stop(a, ev)
      [] ev.kind = "tool_start" -> on_tool_start(a, ev, r)
      [] ev.kind = "tool_end" ->
            IF StartsWith(ev.tool_name, "mcp__") THEN on_creature_end(a, ev) ELSE a
      [] ev.kind = "task_completed" -> on_task_completed(a, ev)
      [] OTHER -> a

handle_event(a, ev, r) == check_milestones(record_event(dispatch(a, ev, r), ev))

\* ------------------------------------------- the aquarium: one frame
\* An update that removes a done or error fish wherever it is.
update_fish_removes_at_once(fish, flip) ==
    LET fw == FishArtWidth(fish.art_idx)
        x == fish.x + fish.speed * fish.direction
        bounced == IF x > (Width - fw - 5) * Scale THEN -1
                   ELSE IF x < 5 * Scale THEN 1
                   ELSE fish.direction
        swum == IF fish.status # "working" THEN fish.direction
                ELSE IF flip THEN -bounced ELSE bounced
        out == fish.status \in {"done", "error"}
    IN [fish EXCEPT
           !.x = x,
           !.direction = IF out THEN 1 ELSE swum,
           !.alive = IF out THEN FALSE ELSE @,
           !.status = IF @ = "spawning" /\ x > 2 * Scale THEN "working" ELSE @]

\* _update_fish.  flip: random.random() < 0.02.  The bubbles a fish emits are
\* drawn and forgotten; they are not kept.
update_fish(fish, flip) ==
    LET fw == FishArtWidth(fish.art_idx)
        x == fish.x + fish.speed * fish.direction
        bounced == IF x > (Width - fw - 5) * Scale THEN -1
                   ELSE IF x < 5 * Scale THEN 1
                   ELSE fish.direction
        swum == IF fish.status # "working" THEN fish.direction
                ELSE IF flip THEN -bounced ELSE bounced
        out == fish.status \in {"done", "error"}
    IN [fish EXCEPT
           !.x = x,
           !.direction = IF out THEN 1 ELSE swum,
           !.alive = IF out /\ x > (Width + 10) * Scale THEN FALSE ELSE @,
           !.status = IF @ = "spawning" /\ x > 2 * Scale THEN "working" ELSE @]

\* An update in which a leaving creature turns around at the edges as an
\* active one does.
update_creature_leaving_bounces(creature, flip, jump) ==
    LET x == creature.x + creature.speed * creature.direction
        art_w == IF creature.creature_type = "sailboat" THEN SailboatWidth ELSE DolphinWidth
        bounced == IF x > (Width - art_w - 3) * Scale THEN -1
                   ELSE IF x < 3 * Scale THEN 1
                   ELSE creature.direction
        moved == [creature EXCEPT !.x = x]
        tick == creature.jump_tick + 1
        height == creature.jump_base_y - creature.jump_apex_y
    IN IF creature.leaving
       THEN [moved EXCEPT !.direction = bounced,
                          !.alive = IF x > (Width + 15) * Scale \/ x < -15 * Scale
                                    THEN FALSE ELSE @]
       ELSE IF creature.creature_type = "sailboat"
       THEN [moved EXCEPT !.direction = bounced]
       ELSE IF ~creature.jumping
       THEN LET swum == [moved EXCEPT !.direction = IF flip THEN -bounced ELSE bounced]
            IN IF creature.y < (OCEAN_TOP + 4) * Scale /\ jump
               THEN [swum EXCEPT !.jumping = TRUE, !.jump_tick = 0,
                                 !.jump_duration = JumpDuration,
                                 !.jump_base_y = creature.y,
                                 !.jump_apex_y = (SURFACE_ROW - 3) * Scale]
               ELSE swum
       ELSE IF tick >= creature.jump_duration
       THEN [moved EXCEPT !.jump_tick = tick, !.jumping = FALSE, !.y = creature.jump_base_y]
       ELSE [moved EXCEPT
                !.jump_tick = tick,
                !.y = creature.jump_base_y
                      - (height * 4 * tick * (creature.jump_duration - tick))
                        \div (creature.jump_duration * creature.jump_duration)]

\* _update_creature.  flip: random.random() < 0.03; jump: random.random() <
\* 0.02.  The wake of a sailboat is drawn and forgotten.
update_creature(creature, flip, jump) ==
    LET x == creature.x + creature.speed * creature.direction
        art_w == IF creature.creature_type = "sailboat" THEN SailboatWidth ELSE DolphinWidth
        bounced == IF x > (Width - art_w - 3) * Scale THEN -1
                   ELSE IF x < 3 * Scale THEN 1
                   ELSE creature.direction
        moved == [creature EXCEPT !.x = x]
        tick == creature.jump_tick + 1
        height == creature.jump_base_y - creature.jump_apex_y
    IN IF creature.leaving
       THEN [moved EXCEPT !.alive = IF x > (Width + 15) * Scale \/ x < -15 * Scale
                                    THEN FALSE ELSE @]
       ELSE IF creature.creature_type = "sailboat"
       THEN [moved EXCEPT !.direction = bounced]
       ELSE IF ~creature.jumping
       THEN LET swum == [moved EXCEPT !.direction = IF flip THEN -bounced ELSE bounced]
            IN IF creature.y < (OCEAN_TOP + 4) * Scale /\ jump
               THEN [swum EXCEPT !.jumping = TRUE, !.jump_tick = 0,
                                 !.jump_duration = JumpDuration,
                                 !.jump_base_y = creature.y,
                                 !.jump_apex_y = (SURFACE_ROW - 3) * Scale]
               ELSE swum
       ELSE IF tick >= creature.jump_duration
       THEN [moved EXCEPT !.jump_tick = tick, !.jumping = FALSE, !.y = creature.jump_base_y]
       ELSE [moved EXCEPT
                !.jump_tick = tick,
                !.y = creature.jump_base_y
                      - (height * 4 * tick * (creature.jump_duration - tick))
                        \div (creature.jump_duration * creature.jump_duration)]

\* The list comprehensions of the frame, [x for x in xs if ...]: the entries
\* of xs at the indices kept, in their order.
Select(xs, kept) ==
    LET nth(k) == CHOOSE i \in kept : Cardinality({j \in kept : j <= i}) = k
    IN [k \in 1..Cardinality(kept) |-> xs[nth(k)]]

\* [x for x in xs if x.alive]
Alive(xs) == Select(xs, {i \in DOMAIN xs : xs[i].alive})

\* _update_tool_bubbles
BubbleStays(tb) == tb.age < BubbleMaxAge /\ tb.y > SURFACE_ROW * Scale
update_tool_bubbles(bubbles) ==
    LET risen == [i \in DOMAIN bubbles |->
                     [bubbles[i] EXCEPT !.y = @ - Scale \div 4, !.age = @ + 1]]
    IN Select(risen, {i \in DOMAIN risen : BubbleStays(risen[i])})

\* An update that moves the tool creatures and leaves their age alone.
update_tool_creatures_ageless(tcs) ==
    [i \in DOMAIN tcs |-> [tcs[i] EXCEPT !.x = @ + tcs[i].speed * tcs[i].direction]]

\* _update_tool_creatures
ToolCreatureStays(tc) == tc.age < ToolCreatureMaxAge
update_tool_creatures(tcs) ==
    LET moved == [i \in DOMAIN tcs |->
                     [tcs[i] EXCEPT !.x = @ + tcs[i].speed * tcs[i].direction, !.age = @ + 1]]
    IN Select(moved, {i \in DOMAIN moved : ToolCreatureStays(moved[i])})

\* self._update_fish(self.main_fish, h, w); self.main_fish.alive = True
MainUpdated(fish, flip) == [update_fish(fish, flip) EXCEPT !.alive = TRUE]

\* _get_selectable_fish_unlocked: the fish that are alive and spawning or
\* working, in the order of self.fishes, and the main fish last.
get_selectable_fish(a) ==
    Select(a.fishes, {i \in DOMAIN a.fishes :
                         /\ a.fishes[i].alive
                         /\ a.fishes[i].status \in {"spawning", "working"}})
        \o <<a.main_fish>>

\* run(): "Reset selection if selected fish is gone", after self.fishes is
\* pruned.
reset_selection(a) ==
    LET n == Len(get_selectable_fish(a))
    IN IF a.selected_fish_idx >= 0 /\ a.selected_fish_idx >= n
       THEN [a EXCEPT !.selected_fish_idx = IF n > 0 THEN n - 1 ELSE -1,
                      !.panel_mode = IF n = 0 /\ @ = "detail" THEN "log" ELSE @]
       ELSE a

\* What one frame of run() draws from random: the fish (by uid, 0 the main
\* fish) and the creatures (by index) that turn around, the dolphins that
\* start a jump.
CalmFrame == [flips |-> {}, turns |-> {}, jumps |-> {}]

\* A frame that updates every entity and prunes no list.
frame_unpruned(a, r) ==
    reset_selection([a EXCEPT
        !.tick = IF @ < MaxTicks THEN @ + 1 ELSE @,
        !.fishes = [i \in DOMAIN a.fishes |->
                             update_fish(a.fishes[i], a.fishes[i].uid \in r.flips)],
        !.main_fish = MainUpdated(a.main_fish, 0 \in r.flips),
        !.creatures = [i \in DOMAIN a.creatures |->
                                update_creature(a.creatures[i], i \in r.turns, i \in r.jumps)],
        !.tool_bubbles = update_tool_bubbles(a.tool_bubbles),
        !.tool_creatures = update_tool_creatures(a.tool_creatures)])

\* One frame of run() after _process_events: the update of every entity and
\* the pruning of the lists, the reset of a selection that points past the
\* selectable fish.  Clouds and ambient creatures only drift.
\* self.tick, which only the drawing reads, is counted up to MaxTicks.
frame(a, r) ==
    reset_selection([a EXCEPT
        !.tick = IF @ < MaxTicks THEN @ + 1 ELSE @,
        !.fishes = Alive([i \in DOMAIN a.fishes |->
                             update_fish(a.fishes[i], a.fishes[i].uid \in r.flips)]),
        !.main_fish = MainUpdated(a.main_fish, 0 \in r.flips),
        !.creatures = Alive([i \in DOMAIN a.creatures |->
                                update_creature(a.creatures[i], i \in r.turns, i \in r.jumps)]),
        !.tool_bubbles = update_tool_bubbles(a.tool_bubbles),
        !.tool_creatures = update_tool_creatures(a.tool_creatures)])

\* ------------------------------------------------------------------- state
VARIABLES
    fsPath,      \* what is at sock_path: "absent", "stale", "foreign", "socket"
    bindable,    \* the directory of sock_path exists and is writable
    sock,        \* _server_sock: "none", "created", "bound", "listening", "closed"
    running,     \* _running
    mainPc,      \* where the main thread is in start() / stop()
    stopCalls,   \* calls of stop() made so far
    acceptPc,    \* _thread: "none", "check", "accept", "exited"
    conn,        \* per connection: "new", "backlog", "accepted"
    payload,     \* per connection: what its client sends
    hpc,         \* per handler thread: "none", "recv", "lines", "append", "closed"
    got,         \* per handler: records received so far (buf)
    lines,       \* per handler: the lines of buf
    idx,         \* per handler: the line the for loop is at
    hres,        \* per handler: how it ended: "", "ok", "oserror", "crashed"
    queue,       \* _queue
    lock,        \* _lock: NoHolder, Render or Handler(c)
    dpc,         \* drain_events: "idle", "copy", "clear", "return"
    events,      \* drain_events' local list
    lastResult,  \* what the latest drain_events call returned
    appended,    \* history: the ids of the events appended, in order
    delivered,   \* history: the ids drain_events returned, in order
    evicted,     \* history: the ids the deque dropped on overflow
    drained,     \* history: some drain_events call has returned
    sinceReturn, \* history: an append happened since the latest return
    quietDrain,  \* history: the latest call returned with no append since the one before
    unlinked,    \* history: start() removed an entry it found at sock_path
    aq,          \* the Aquarium object
    script,      \* the events a scripted session delivers
    sent,        \* how many of them _handle_event was called for
    tpc,         \* per thread: where it is in _handle_event
    tev          \* per thread: the event it is handling

lifeVars == <<fsPath, bindable, sock, running, mainPc, stopCalls, acceptPc>>
connVars == <<conn, payload>>
handlerVars == <<hpc, got, lines, idx, hres>>
queueVars == <<queue, lock>>
drainVars == <<dpc, events, lastResult>>
histVars == <<appended, delivered, evicted, drained, sinceReturn, quietDrain, unlinked>>
worldVars == <<aq, script, sent, tpc, tev>>
serverVars == <<lifeVars, connVars, handlerVars, queueVars, drainVars, histVars>>
vars == <<serverVars, worldVars>>

\* The threads that call _handle_event: the render loop (_process_events, and
\* spawn_demo_agent on the D key) and a demo thread (demo_spawner, lifecycle).
Threads == {"render", "demo"}
NoEvent == Event([event |-> ""])
\* A session is scripted as `starts` events of one kind followed by `ends`
\* tool_end events; NoScript is the session of the specifications that choose
\* their events freely.
NoScript == [kind |-> "", starts |-> 0, ends |-> 0]

\* EventServer.__init__, in an environment where sock_path is free, holds a
\* socket file a crashed run left, or holds an entry the process may not
\* remove; a missing or read-only directory holds nothing to remove.
ServerInit ==
    /\ fsPath \in {"absent", "stale", "foreign"}
    /\ bindable \in BOOLEAN
    /\ (~bindable => fsPath = "absent")
    /\ sock = "none"
    /\ running = FALSE
    /\ mainPc = "init"
    /\ stopCalls = 0
    /\ acceptPc = "none"
    /\ conn = [c \in Conns |-> "new"]
    /\ payload = [c \in Conns |-> Payload(<<>>, TRUE)]
    /\ hpc = [c \in Conns |-> "none"]
    /\ got = [c \in Conns |-> 0]
    /\ lines = [c \in Conns |-> <<>>]
    /\ idx = [c \in Conns |-> 1]
    /\ hres = [c \in Conns |-> ""]
    /\ queue = <<>>
    /\ lock = NoHolder
    /\ dpc = "idle"
    /\ events = <<>>
    /\ lastResult = <<>>
    /\ appended = <<>>
    /\ delivered = <<>>
    /\ evicted = <<>>
    /\ drained = FALSE
    /\ sinceReturn = FALSE
    /\ quietDrain = FALSE
    /\ unlinked = FALSE

\* No event has been handled and no thread is inside _handle_event.
WorldIdle ==
    /\ script = NoScript
    /\ sent = 0
    /\ tpc = [t \in Threads |-> "idle"]
    /\ tev = [t \in Threads |-> NoEvent]

\* The server, with an aquarium that is constructed and left alone.
Init ==
    /\ ServerInit
    /\ aq = NewAquarium(2, 2, 1, Tenths(4))
    /\ WorldIdle

\* ------------------------------------------------------------ the deque
\* A deque that never drops an entry.
DequeAppendUnbounded(q, x) == Append(q, x)

\* deque(maxlen=500).append: a full deque drops its oldest entry.
DequeAppend(q, x) ==
    IF Len(q) >= QueueMaxLen THEN Append(Tail(q), x) ELSE Append(q, x)

DequeDropped(q) == IF Len(q) >= QueueMaxLen THEN <<Head(q).id>> ELSE <<>>

\* No mutual exclusion: a thread enters whoever holds the lock.
LockAvailableAlways(t) == TRUE

\* `with self._lock`: a thread enters when no thread holds the lock.
LockAvailable(t) == lock = NoHolder

Ids(q) == [i \in 1..Len(q) |-> q[i].id]

\* ------------------------------------------------------------ start()
\* if os.path.exists(self.sock_path):
StartExists ==
    /\ mainPc = "init"
    /\ mainPc' = IF fsPath # "absent" THEN "start_unlink" ELSE "start_socket"
    /\ UNCHANGED <<fsPath, bindable, sock, running, stopCalls, acceptPc>>
    /\ UNCHANGED <<connVars, handlerVars, queueVars, drainVars, histVars>>
    /\ UNCHANGED worldVars

\* A start() that leaves the entry it found in place.
StartUnlinkSkipped ==
    /\ mainPc = "start_unlink"
    /\ mainPc' = "start_socket"
    /\ UNCHANGED <<fsPath, bindable, sock, running, stopCalls, acceptPc>>
    /\ UNCHANGED <<connVars, handlerVars, queueVars, drainVars, histVars>>
    /\ UNCHANGED worldVars

\* os.unlink(self.sock_path): raises when the entry may not be removed.
StartUnlink ==
    /\ mainPc = "start_unlink"
    /\ IF fsPath = "foreign"
       THEN mainPc' = "start_failed" /\ fsPath' = fsPath /\ unlinked' = unlinked
       ELSE mainPc' = "start_socket" /\ fsPath' = "absent" /\ unlinked' = TRUE
    /\ UNCHANGED <<bindable, sock, running, stopCalls, acceptPc>>
    /\ UNCHANGED <<connVars, handlerVars, queueVars, drainVars>>
    /\ UNCHANGED <<appended, delivered, evicted, drained, sinceReturn, quietDrain>>
    /\ UNCHANGED worldVars

\* self._server_sock = socket.socket(AF_UNIX, SOCK_STREAM)
StartSocket ==
    /\ mainPc = "start_socket"
    /\ sock' = "created"
    /\ mainPc' = "start_bind"
    /\ UNCHANGED <<fsPath, bindable, running, stopCalls, acceptPc>>
    /\ UNCHANGED <<connVars, handlerVars, queueVars, drainVars, histVars>>
    /\ UNCHANGED worldVars

\* self._server_sock.bind(self.sock_path): creates the socket file; raises
\* when the path is taken or the directory does not take it.
StartBind ==
    /\ mainPc = "start_bind"
    /\ IF bindable /\ fsPath = "absent"
       THEN sock' = "bound" /\ fsPath' = "socket" /\ mainPc' = "start_listen"
       ELSE sock' = sock /\ fsPath' = fsPath /\ mainPc' = "start_failed"
    /\ UNCHANGED <<bindable, running, stopCalls, acceptPc>>
    /\ UNCHANGED <<connVars, handlerVars, queueVars, drainVars, histVars>>
    /\ UNCHANGED worldVars

\* self._server_sock.listen(5); self._server_sock.settimeout(0.5)
StartListen ==
    /\ mainPc = "start_listen"
    /\ sock' = "listening"
    /\ mainPc' = "start_run"
    /\ UNCHANGED <<fsPath, bindable, running, stopCalls, acceptPc>>
    /\ UNCHANGED <<connVars, handlerVars, queueVars, drainVars, histVars>>
    /\ UNCHANGED worldVars

\* self._running = True
StartRun ==
    /\ mainPc = "start_run"
    /\ running' = TRUE
    /\ mainPc' = "start_thread"
    /\ UNCHANGED <<fsPath, bindable, sock, stopCalls, acceptPc>>
    /\ UNCHANGED <<connVars, handlerVars, queueVars, drainVars, histVars>>
    /\ UNCHANGED worldVars

\* self._thread = threading.Thread(target=self._accept_loop); .start()
StartThread ==
    /\ mainPc = "start_thread"
    /\ acceptPc' = "check"
    /\ mainPc' = "started"
    /\ UNCHANGED <<fsPath, bindable, sock, running, stopCalls>>
    /\ UNCHANGED <<connVars, handlerVars, queueVars, drainVars, histVars>>
    /\ UNCHANGED worldVars

\* ------------------------------------------------------------- stop()
\* A call of stop(), after start() returned or raised, or after an earlier
\* stop().  self._running = False
StopCall ==
    /\ mainPc \in {"started", "start_failed", "stopped", "stop_raised"}
    /\ stopCalls < MaxStops
    /\ dpc = "idle"
    /\ stopCalls' = stopCalls + 1
    /\ running' = FALSE
    /\ mainPc' = "stop_join"
    /\ UNCHANGED <<fsPath, bindable, sock, acceptPc>>
    /\ UNCHANGED <<connVars, handlerVars, queueVars, drainVars, histVars>>
    /\ UNCHANGED worldVars

\* if self._thread: self._thread.join(timeout=2): returns when the accept
\* thread has ended, or after the timeout with the thread still alive.
StopJoin ==
    /\ mainPc = "stop_join"
    /\ mainPc' = "stop_close"
    /\ UNCHANGED <<fsPath, bindable, sock, running, stopCalls, acceptPc>>
    /\ UNCHANGED <<connVars, handlerVars, queueVars, drainVars, histVars>>
    /\ UNCHANGED worldVars

\* if self._server_sock: self._server_sock.close()
StopClose ==
    /\ mainPc = "stop_close"
    /\ sock' = IF sock # "none" THEN "closed" ELSE sock
    /\ mainPc' = "stop_exists"
    /\ UNCHANGED <<fsPath, bindable, running, stopCalls, acceptPc>>
    /\ UNCHANGED <<connVars, handlerVars, queueVars, drainVars, histVars>>
    /\ UNCHANGED worldVars

\* if os.path.exists(self.sock_path):
StopExists ==
    /\ mainPc = "stop_exists"
    /\ mainPc' = IF fsPath # "absent" THEN "stop_unlink" ELSE "stopped"
    /\ UNCHANGED <<fsPath, bindable, sock, running, stopCalls, acceptPc>>
    /\ UNCHANGED <<connVars, handlerVars, queueVars, drainVars, histVars>>
    /\ UNCHANGED worldVars

\* os.unlink(self.sock_path): raises when the entry may not be removed.
StopUnlink ==
    /\ mainPc = "stop_unlink"
    /\ IF fsPath = "foreign"
       THEN mainPc' = "stop_raised" /\ fsPath' = fsPath
       ELSE mainPc' = "stopped" /\ fsPath' = "absent"
    /\ UNCHANGED <<bindable, sock, running, stopCalls, acceptPc>>
    /\ UNCHANGED <<connVars, handlerVars, queueVars, drainVars, histVars>>
    /\ UNCHANGED worldVars

\* ------------------------------------------------------- _accept_loop
\* A loop that goes on to accept() whatever _running holds.
AcceptCheckIgnoresFlag ==
    /\ acceptPc = "check"
    /\ acceptPc' = "accept"
    /\ UNCHANGED <<fsPath, bindable, sock, running, mainPc, stopCalls>>
    /\ UNCHANGED <<connVars, handlerVars, queueVars, drainVars, histVars>>
    /\ UNCHANGED worldVars

\* while self._running:
AcceptCheck ==
    /\ acceptPc = "check"
    /\ acceptPc' = IF running THEN "accept" ELSE "exited"
    /\ UNCHANGED <<fsPath, bindable, sock, running, mainPc, stopCalls>>
    /\ UNCHANGED <<connVars, handlerVars, queueVars, drainVars, histVars>>
    /\ UNCHANGED worldVars

\* conn, _ = self._server_sock.accept(); threading.Thread(...).start()
AcceptConn(c) ==
    /\ acceptPc = "accept"
    /\ sock = "listening"
    /\ conn[c] = "backlog"
    /\ conn' = [conn EXCEPT ![c] = "accepted"]
    /\ hpc' = [hpc EXCEPT ![c] = "recv"]
    /\ acceptPc' = "check"
    /\ UNCHANGED <<fsPath, bindable, sock, running, mainPc, stopCalls>>
    /\ UNCHANGED <<payload, got, lines, idx, hres, queueVars, drainVars, histVars>>
    /\ UNCHANGED worldVars

\* except socket.timeout: continue  (no connection within 0.5 s)
AcceptTimeout ==
    /\ acceptPc = "accept"
    /\ sock = "listening"
    /\ \A c \in Conns : conn[c] # "backlog"
    /\ acceptPc' = "check"
    /\ UNCHANGED <<fsPath, bindable, sock, running, mainPc, stopCalls>>
    /\ UNCHANGED <<connVars, handlerVars, queueVars, drainVars, histVars>>
    /\ UNCHANGED worldVars

\* except OSError: break  (the socket was closed under it, or accept failed)
AcceptOSError ==
    /\ acceptPc = "accept"
    /\ acceptPc' = "exited"
    /\ UNCHANGED <<fsPath, bindable, sock, running, mainPc, stopCalls>>
    /\ UNCHANGED <<connVars, handlerVars, queueVars, drainVars, histVars>>
    /\ UNCHANGED worldVars

\* ------------------------------------------------------------ clients
\* A client connects to the listening socket; the connection waits in the
\* backlog.  Connections are numbered in the order they are made.
CanConnect(c) ==
    /\ conn[c] = "new"
    /\ \A b \in Conns : b < c => conn[b] # "new"
    /\ sock = "listening"
    /\ fsPath = "socket"

Connect(c, ps) ==
    /\ CanConnect(c)
    /\ \E p \in ps : payload' = [payload EXCEPT ![c] = p]
    /\ conn' = [conn EXCEPT ![c] = "backlog"]
    /\ UNCHANGED <<lifeVars, handlerVars, queueVars, drainVars, histVars>>
    /\ UNCHANGED worldVars

\* Several clients, each sending well-formed records.
ClientConnect(c) == Connect(c, ConcPayloads)

\* One client, sending any of the payloads.
ClientConnectAny == Connect(1, Payloads)

\* One client, sending more records than the queue holds.
ClientConnectFlood == Connect(1, FloodPayloads)

\* ----------------------------------------------------- _handle_client
\* chunk = conn.recv(4096); buf += chunk: one more record arrives, or all
\* that the client has left to send.
RecvChunk(c) ==
    /\ hpc[c] = "recv"
    /\ got[c] < Len(payload[c].recs)
    /\ \E k \in {1, Len(payload[c].recs) - got[c]} :
          got' = [got EXCEPT ![c] = got[c] + k]
    /\ UNCHANGED <<lifeVars, connVars, hpc, lines, idx, hres>>
    /\ UNCHANGED <<queueVars, drainVars, histVars>>
    /\ UNCHANGED worldVars

\* if not chunk: break; then buf.decode(...).splitlines() for the for loop.
RecvEOF(c) ==
    /\ hpc[c] = "recv"
    /\ got[c] = Len(payload[c].recs)
    /\ lines' = [lines EXCEPT ![c] = splitlines(Payload(SubSeq(payload[c].recs, 1, got[c]), payload[c].term))]
    /\ idx' = [idx EXCEPT ![c] = 1]
    /\ hpc' = [hpc EXCEPT ![c] = "lines"]
    /\ UNCHANGED <<lifeVars, connVars, got, hres>>
    /\ UNCHANGED <<queueVars, drainVars, histVars>>
    /\ UNCHANGED worldVars

\* conn.recv raises OSError: except OSError: pass; finally: conn.close().
\* The for loop over the lines of buf is inside the try and is skipped.
RecvError(c) ==
    /\ hpc[c] = "recv"
    /\ hpc' = [hpc EXCEPT ![c] = "closed"]
    /\ hres' = [hres EXCEPT ![c] = "oserror"]
    /\ UNCHANGED <<lifeVars, connVars, got, lines, idx>>
    /\ UNCHANGED <<queueVars, drainVars, histVars>>
    /\ UNCHANGED worldVars

\* One turn of the for loop up to `with self._lock`: strip, skip a blank
\* line, parse_event; an event waits for the lock and takes it; an exception
\* of parse_event leaves through finally and ends the thread.
ProcessLine(c) ==
    /\ hpc[c] = "lines"
    /\ idx[c] <= Len(lines[c])
    /\ LET line == lines[c][idx[c]]
           r == IF line.json = "blank" THEN ParseNone ELSE parse_event(line)
       IN CASE r.tag = "none" ->
                 /\ idx' = [idx EXCEPT ![c] = idx[c] + 1]
                 /\ UNCHANGED <<hpc, hres, lock>>
            [] r.tag = "raise" ->
                 /\ hpc' = [hpc EXCEPT ![c] = "closed"]
                 /\ hres' = [hres EXCEPT ![c] = "crashed"]
                 /\ UNCHANGED <<idx, lock>>
            [] r.tag = "event" ->
                 /\ LockAvailable(Handler(c))
                 /\ lock' = Handler(c)
                 /\ hpc' = [hpc EXCEPT ![c] = "append"]
                 /\ UNCHANGED <<idx, hres>>
    /\ UNCHANGED <<lifeVars, connVars, got, lines, queue>>
    /\ UNCHANGED <<drainVars, histVars>>
    /\ UNCHANGED worldVars

\* An append that leaves the with block without releasing the lock.
HandlerAppendKeepsLock(c) ==
    /\ hpc[c] = "append"
    /\ LET item == [id |-> <<c, idx[c]>>, ev |-> parse_event(lines[c][idx[c]]).ev]
       IN /\ queue' = DequeAppend(queue, item)
          /\ evicted' = evicted \o DequeDropped(queue)
          /\ appended' = Append(appended, item.id)
    /\ UNCHANGED lock
    /\ sinceReturn' = TRUE
    /\ idx' = [idx EXCEPT ![c] = idx[c] + 1]
    /\ hpc' = [hpc EXCEPT ![c] = "lines"]
    /\ UNCHANGED <<lifeVars, connVars, got, lines, hres>>
    /\ UNCHANGED <<drainVars, delivered, drained, quietDrain, unlinked>>
    /\ UNCHANGED worldVars

\* self._queue.append(ev), and the end of the with block.
HandlerAppend(c) ==
    /\ hpc[c] = "append"
    /\ LET item == [id |-> <<c, idx[c]>>, ev |-> parse_event(lines[c][idx[c]]).ev]
       IN /\ queue' = DequeAppend(queue, item)
          /\ evicted' = evicted \o DequeDropped(queue)
          /\ appended' = Append(appended, item.id)
    /\ lock' = NoHolder
    /\ sinceReturn' = TRUE
    /\ idx' = [idx EXCEPT ![c] = idx[c] + 1]
    /\ hpc' = [hpc EXCEPT ![c] = "lines"]
    /\ UNCHANGED <<lifeVars, connVars, got, lines, hres>>
    /\ UNCHANGED <<drainVars, delivered, drained, quietDrain, unlinked>>
    /\ UNCHANGED worldVars

\* The for loop is over: finally: conn.close().
HandlerClose(c) ==
    /\ hpc[c] = "lines"
    /\ idx[c] > Len(lines[c])
    /\ hpc' = [hpc EXCEPT ![c] = "closed"]
    /\ hres' = [hres EXCEPT ![c] = "ok"]
    /\ UNCHANGED <<lifeVars, connVars, got, lines, idx>>
    /\ UNCHANGED <<queueVars, drainVars, histVars>>
    /\ UNCHANGED worldVars

\* ------------------------------------------------------- drain_events
\* with self._lock:
DrainAcquire ==
    /\ dpc = "idle"
    /\ mainPc = "started"
    /\ LockAvailable(Render)
    /\ lock' = Render
    /\ dpc' = "copy"
    /\ UNCHANGED <<lifeVars, connVars, handlerVars, queue, events, lastResult, histVars>>
    /\ UNCHANGED worldVars

\* events = list(self._queue)
DrainCopy ==
    /\ dpc = "copy"
    /\ events' = queue
    /\ dpc' = "clear"
    /\ UNCHANGED <<lifeVars, connVars, handlerVars, queueVars, lastResult, histVars>>
    /\ UNCHANGED worldVars

\* A drain that forgets to clear the queue.
DrainClearSkipped ==
    /\ dpc = "clear"
    /\ dpc' = "return"
    /\ UNCHANGED <<lifeVars, connVars, handlerVars, queueVars, events, lastResult, histVars>>
    /\ UNCHANGED worldVars

\* self._queue.clear()
DrainClear ==
    /\ dpc = "clear"
    /\ queue' = <<>>
    /\ dpc' = "return"
    /\ UNCHANGED <<lifeVars, connVars, handlerVars, lock, events, lastResult, histVars>>
    /\ UNCHANGED worldVars

\* return events, and the end of the with block.
DrainReturn ==
    /\ dpc = "return"
    /\ lastResult' = events
    /\ lock' = NoHolder
    /\ dpc' = "idle"
    /\ delivered' = delivered \o Ids(events)
    /\ quietDrain' = (drained /\ ~sinceReturn)
    /\ drained' = TRUE
    /\ sinceReturn' = FALSE
    /\ UNCHANGED <<lifeVars, connVars, handlerVars, queue, events>>
    /\ UNCHANGED <<appended, evicted, unlinked>>
    /\ UNCHANGED worldVars

\* ------------------------------------------------------ specifications
StartStep ==
    \/ StartExists \/ StartUnlink \/ StartSocket \/ StartBind
    \/ StartListen \/ StartRun \/ StartThread

StopStep == StopCall \/ StopJoin \/ StopClose \/ StopExists \/ StopUnlink

AcceptStep == AcceptCheck \/ AcceptTimeout \/ AcceptOSError \/ \E c \in Conns : AcceptConn(c)

HandlerStep(c) ==
    \/ RecvChunk(c) \/ RecvEOF(c) \/ RecvError(c)
    \/ ProcessLine(c) \/ HandlerAppend(c) \/ HandlerClose(c)

DrainStep == DrainAcquire \/ DrainCopy \/ DrainClear \/ DrainReturn

\* The server constructed over the socket file a crashed run left: start(),
\* the accept thread, the clients, their handler threads and the render
\* loop's drain_events calls.
InitStale == Init /\ fsPath = "stale"

Next ==
    \/ StartStep
    \/ AcceptStep
    \/ \E c \in Conns : ClientConnect(c)
    \/ \E c \in Conns : HandlerStep(c)
    \/ DrainStep

Spec == InitStale /\ [][Next]_vars

\* One connection carrying any payload: the decoding of its lines.
NextDecode ==
    \/ StartStep
    \/ AcceptStep
    \/ ClientConnectAny
    \/ \E c \in Conns : HandlerStep(c)
    \/ DrainStep

SpecDecode == Init /\ [][NextDecode]_vars

\* The whole life of the server object: start(), the accept thread, the
\* clients that connect, and the calls of stop().
NextLife ==
    \/ StartStep
    \/ StopStep
    \/ AcceptStep
    \/ \E c \in Conns : ClientConnect(c)

SpecLife == Init /\ [][NextLife]_vars

\* The same life with the accept thread scheduled: a started thread that can
\* take a step of _accept_loop eventually takes one (accept() returns within
\* its 0.5 s timeout, so the thread is never blocked for good).
SpecLifeFair == SpecLife /\ WF_vars(AcceptStep)

\* The concurrent runs with the holder of the lock scheduled: a thread inside
\* a with block runs no blocking call, so it takes its next step.  A thread in
\* recv is not scheduled: its client may stall for good.
InLock == DrainCopy \/ DrainClear \/ DrainReturn \/ \E c \in Conns : HandlerAppend(c)

SpecFair == Spec /\ WF_vars(InLock)

\* One client sending about as many records as the queue holds, and the
\* render loop draining once its handler is through.
InitFlood == InitStale

DrainAfterClose == hpc[1] = "closed" /\ DrainAcquire

NextFlood ==
    \/ StartStep
    \/ AcceptCheck
    \/ \E c \in Conns : AcceptConn(c)
    \/ ClientConnectFlood
    \/ \E c \in Conns : HandlerStep(c)
    \/ DrainAfterClose \/ DrainCopy \/ DrainClear \/ DrainReturn

SpecFlood == InitFlood /\ [][NextFlood]_vars

\* ------------------------------------------------- the aquarium at work
\* What a handler draws from random: the speed and depth of a new fish, where
\* a tool bubble and a tool creature appear, whether a tool creature appears
\* (random.random() < 0.3) and which, the depth and speed of a dolphin.
FishSpeeds == {Tenths(3), Tenths(8)}
Draws ==
    [speed : FishSpeeds, y : {(OCEAN_TOP + 1) * Scale}, off : {5 * Scale},
     spawn : BOOLEAN, art_idx : {2}, coff : {0}, creature_speed : {Tenths(2)},
     dolphin_y : {OCEAN_TOP * Scale}, dolphin_speed : {Tenths(4)}]

Idle == \A t \in Threads : tpc[t] = "idle"

\* _handle_event(ev, h, w), called while no other thread is inside it.
Handle(ev) ==
    /\ Idle
    /\ \E r \in Draws : aq' = handle_event(aq, ev, r)
    /\ UNCHANGED <<script, sent, tpc, tev>>
    /\ UNCHANGED serverVars

\* run(): one pass of the loop body after _process_events.
Frame(r) ==
    /\ Idle
    /\ aq' = frame(aq, r)
    /\ UNCHANGED <<script, sent, tpc, tev>>
    /\ UNCHANGED serverVars

\* A frame in which no fish and no creature turns around at random.
CalmTick == Frame(CalmFrame)

\* The aquarium of a server that is left alone.
InitAquarium == Init /\ fsPath = "absent" /\ bindable

\* Agents starting and stopping, under the id of a sub-agent and under the id
\* of the main fish.
AgentEvents ==
    { Event([event |-> "agent_start", agent_id |-> id, agent_type |-> "Explore"]) :
        id \in {"a1", "__main__"} } \cup
    { Event([event |-> "agent_stop", agent_id |-> id, agent_type |-> "Explore", error |-> e]) :
        id \in {"a1", "__main__"}, e \in BOOLEAN }

AgentEvent ==
    \E ev \in AgentEvents :
        /\ aq.stats.total_events < MaxEvents
        /\ ev.kind = "agent_start" => aq.total_agents < MaxAgents
        /\ Handle(ev)

NextAgents == AgentEvent \/ CalmTick

SpecAgents == InitAquarium /\ [][NextAgents]_vars

\* The render loop keeps running: a frame follows every 50 ms.
SpecAgentsFair == SpecAgents /\ WF_vars(CalmTick)

\* Tool calls and completed tasks: of a sub-agent that has started, of one
\* that never started, by a plain tool and by an MCP tool.
ToolEvents ==
    { Event([event |-> "agent_start", agent_id |-> "a1", agent_type |-> "Plan"]) } \cup
    { Event([event |-> k, agent_id |-> id, tool_name |-> t]) :
        k \in {"tool_start", "tool_end"}, id \in {"a1", "ghost"},
        t \in {"Read", "mcp__codex__codex"} } \cup
    { Event([event |-> "tool_start", agent_id |-> "a1", tool_name |-> t]) :
        t \in {"mcp__notion__search", "mcp_x"} } \cup
    { Event([event |-> "task_completed", task_subject |-> sub]) : sub \in {"t1", "t2"} }

ToolEvent ==
    \E ev \in ToolEvents :
        /\ aq.stats.total_events < MaxEvents
        /\ ev.kind = "agent_start" => aq.total_agents < MaxAgents
        /\ Handle(ev)

\* One of the first frames of the run.
EarlyTick == aq.tick < MaxTicks /\ CalmTick

NextTools == ToolEvent \/ EarlyTick

SpecTools == InitAquarium /\ [][NextTools]_vars

\* Agents of every type the art map knows, of the two decorated families,
\* and of types it does not know, starting and stopping.
AgentTypes ==
    {"Explore", "general-purpose", "Plan", "code-reviewer", "code-simplifier",
     "feature-dev:code-architect", "superpowers:brainstorm", "feature-dev", "claude", ""}

TypeEvents ==
    { Event([event |-> "agent_start", agent_id |-> "a1", agent_type |-> t]) :
        t \in AgentTypes } \cup
    { Event([event |-> "agent_stop", agent_id |-> id, error |-> e]) :
        id \in {"a1", "ghost"}, e \in BOOLEAN }

TypeEvent ==
    \E ev \in TypeEvents :
        /\ aq.stats.total_events < MaxEvents
        /\ ev.kind = "agent_start" => aq.total_agents < MaxAgents
        /\ Handle(ev)

NextTypes == TypeEvent \/ EarlyTick

SpecTypes == InitAquarium /\ [][NextTypes]_vars

\* A long session handled by the render loop alone: the events the server
\* hands over, one after another, stamped with their position in the session
\* and using a plain tool and an MCP tool in turn.  A session of agent_start
\* events goes on with agent_stop events, every other one of them with an
\* error; any other session goes on with tool_end events.
SessionLen == LogCap + SessionExtra

ScriptEvent(s, i) ==
    LET tool == IF i % 2 = 0 THEN "mcp__codex__codex" ELSE "Read" IN
    IF i <= s.starts
    THEN Event([event |-> s.kind, agent_id |-> "a1", agent_type |-> "Explore",
                tool_name |-> tool, timestamp |-> i])
    ELSE IF s.kind = "agent_start"
    THEN Event([event |-> "agent_stop", agent_id |-> "a1", agent_type |-> "Explore",
                error |-> (i % 2 = 0), timestamp |-> i])
    ELSE Event([event |-> "tool_end", agent_id |-> "a1", tool_name |-> tool,
                timestamp |-> i])

\* Sessions of tool calls around the 100th, of an agent that starts, once or
\* twice under the same id, and is stopped, and one of events of a kind
\* _handle_event does not know.
Sessions ==
    {[kind |-> "tool_start", starts |-> n, ends |-> SessionLen - n] :
        n \in {0, ToolsMilestone - 1, ToolsMilestone, SessionLen}} \cup
    {[kind |-> "agent_start", starts |-> n, ends |-> SessionExtra] : n \in {1, 2}} \cup
    {[kind |-> "ping", starts |-> SessionExtra, ends |-> 1]}

SessionDraws == {r \in Draws : r.speed = Tenths(3) /\ ~r.spawn}

InitWorld(scripts) ==
    /\ ServerInit
    /\ fsPath = "absent"
    /\ bindable
    /\ aq = NewAquarium(2, 2, 1, Tenths(4))
    /\ script \in scripts
    /\ sent = 0
    /\ tpc = [t \in Threads |-> "idle"]
    /\ tev = [t \in Threads |-> NoEvent]

\* _process_events: the next event of the session goes through _handle_event.
SessionStep ==
    /\ Idle
    /\ sent < script.starts + script.ends
    /\ \E r \in SessionDraws : aq' = handle_event(aq, ScriptEvent(script, sent + 1), r)
    /\ sent' = sent + 1
    /\ UNCHANGED <<script, tpc, tev>>
    /\ UNCHANGED serverVars

NextSession == SessionStep

SpecSession == InitWorld(Sessions) /\ [][NextSession]_vars

\* Two threads in _handle_event: the render loop with the events of the
\* server, and a demo thread (demo_spawner in spawn_demo_agent, or a lifecycle
\* thread) with events of its own. The handlers hold self.lock; _record_event
\* and _check_milestones run without it, so a thread can be suspended between
\* the test of a milestone and the statements that follow it. The demo thread
\* sleeps first: it takes part in the last RaceWindow events of the session.
ThreadSessions ==
    {[kind |-> "agent_start", starts |-> AgentsMilestone, ends |-> 0],
     [kind |-> "tool_start", starts |-> ToolsMilestone, ends |-> 0]}

At(t, pc) == tpc[t] = pc
Goto(t, pc) == tpc' = [tpc EXCEPT ![t] = pc]

\* A thread calls _handle_event with the next event of the session.
EnterHandleEvent(t) ==
    /\ At(t, "idle")
    /\ sent < script.starts + script.ends
    /\ t = "demo" => sent >= script.starts - RaceWindow
    /\ tev' = [tev EXCEPT ![t] = ScriptEvent(script, sent + 1)]
    /\ sent' = sent + 1
    /\ Goto(t, "dispatch")
    /\ UNCHANGED <<aq, script>>
    /\ UNCHANGED serverVars

\* The handler of the event's kind, under self.lock.
DispatchEvent(t) ==
    /\ At(t, "dispatch")
    /\ \E r \in SessionDraws : aq' = dispatch(aq, tev[t], r)
    /\ Goto(t, "record")
    /\ UNCHANGED <<script, sent, tev>>
    /\ UNCHANGED serverVars

\* self._record_event(ev)
RecordEvent(t) ==
    /\ At(t, "record")
    /\ aq' = record_event(aq, tev[t])
    /\ Goto(t, "test_tools")
    /\ UNCHANGED <<script, sent, tev>>
    /\ UNCHANGED serverVars

\* _check_milestones: if self.total_tools >= 100 and "tools_100" not in ...
TestTools(t) ==
    /\ At(t, "test_tools")
    /\ Goto(t, IF tools_due(aq) THEN "fire_tools" ELSE "test_agents")
    /\ UNCHANGED <<aq, script, sent, tev>>
    /\ UNCHANGED serverVars

\* ... the body of that if.
FireTools(t) ==
    /\ At(t, "fire_tools")
    /\ aq' = tools_fire(aq)
    /\ Goto(t, "test_agents")
    /\ UNCHANGED <<script, sent, tev>>
    /\ UNCHANGED serverVars

\* _check_milestones: if self.total_agents >= 10 and "agents_10" not in ...
TestAgents(t) ==
    /\ At(t, "test_agents")
    /\ Goto(t, IF agents_due(aq) THEN "fire_agents" ELSE "idle")
    /\ UNCHANGED <<aq, script, sent, tev>>
    /\ UNCHANGED serverVars

\* ... the body of that if, and the return of _handle_event.
FireAgents(t) ==
    /\ At(t, "fire_agents")
    /\ aq' = agents_fire(aq)
    /\ Goto(t, "idle")
    /\ UNCHANGED <<script, sent, tev>>
    /\ UNCHANGED serverVars

NextThreads ==
    \E t \in Threads :
        \/ EnterHandleEvent(t)
        \/ DispatchEvent(t)
        \/ RecordEvent(t)
        \/ TestTools(t)
        \/ FireTools(t)
        \/ TestAgents(t)
        \/ FireAgents(t)

SpecThreads == InitWorld(ThreadSessions) /\ [][NextThreads]_vars

\* ------------------------------------------------------------ the driver
\* run_tui: server.start(); try: Aquarium(stdscr, server); aquarium.run()
\* finally: server.stop(). tpc["render"] is the position of the main thread:
\* "start" in server.start(), "getch" .. "frame" in the loop of run(), "quit"
\* and "raised" in the finally block, "exit" when run_tui is over.
Driver == tpc["render"]
DriverGoto(pc) == tpc' = [tpc EXCEPT !["render"] = pc]

InitDriver ==
    /\ ServerInit
    /\ aq = NewAquarium(2, 2, 1, Tenths(4))
    /\ script = NoScript
    /\ sent = 0
    /\ tpc = [t \in Threads |-> IF t = "render" THEN "start" ELSE "idle"]
    /\ tev = [t \in Threads |-> NoEvent]

\* server.start(), step by step.
DriverStart == Driver = "start" /\ StartStep

\* server.start() raised: it is called before the try, so run_tui ends here.
DriverStartRaised ==
    /\ Driver = "start"
    /\ mainPc = "start_failed"
    /\ DriverGoto("exit")
    /\ UNCHANGED <<aq, script, sent, tev>>
    /\ UNCHANGED serverVars

\* aquarium = Aquarium(stdscr, server), and the entry of aquarium.run(); or an
\* exception out of the constructor (curses.error).
DriverConstruct ==
    /\ Driver = "start"
    /\ mainPc = "started"
    /\ \E pc \in {"getch", "raised"} : DriverGoto(pc)
    /\ UNCHANGED <<aq, script, sent, tev>>
    /\ UNCHANGED serverVars

\* key = self.stdscr.getch(): q or Q, or anything else (no key included).
DriverKey ==
    /\ Driver = "getch"
    /\ \E pc \in {"key_q", "key_other"} : DriverGoto(pc)
    /\ UNCHANGED <<aq, script, sent, tev>>
    /\ UNCHANGED serverVars

\* A loop that looks at the quit key after the events of the iteration.
DriverBreakLate ==
    /\ Driver = "key_q"
    /\ DriverGoto("events")
    /\ UNCHANGED <<aq, script, sent, tev>>
    /\ UNCHANGED serverVars

\* if key in (ord('q'), ord('Q')): break
DriverBreak ==
    /\ Driver = "key_q"
    /\ DriverGoto("quit")
    /\ UNCHANGED <<aq, script, sent, tev>>
    /\ UNCHANGED serverVars

\* The other keys: none of them touches the server or the entities.
DriverOtherKey ==
    /\ Driver = "key_other"
    /\ aq.tick < MaxTicks
    /\ DriverGoto("events")
    /\ UNCHANGED <<aq, script, sent, tev>>
    /\ UNCHANGED serverVars

\* for ev in events: self._handle_event(ev, h, w)
RECURSIVE handle_events(_, _, _)
handle_events(a, evs, r) ==
    IF evs = <<>> THEN a
    ELSE handle_events(handle_event(a, Head(evs).ev, r), Tail(evs), r)

\* self._process_events(): drain_events() under the server's lock, then the
\* events drained, in order.
DriverProcessEvents ==
    /\ Driver = "events"
    /\ dpc = "idle"
    /\ LockAvailable(Render)
    /\ events' = queue
    /\ lastResult' = queue
    /\ queue' = <<>>
    /\ delivered' = delivered \o Ids(queue)
    /\ quietDrain' = (drained /\ ~sinceReturn)
    /\ drained' = TRUE
    /\ sinceReturn' = FALSE
    /\ \E r \in SessionDraws : aq' = handle_events(aq, queue, r)
    /\ DriverGoto("frame")
    /\ UNCHANGED <<lifeVars, connVars, handlerVars, lock, dpc>>
    /\ UNCHANGED <<appended, evicted, unlinked>>
    /\ UNCHANGED <<script, sent, tev>>

\* The rest of the loop body: update, draw, self.tick += 1, time.sleep(0.05).
DriverFrame ==
    /\ Driver = "frame"
    /\ aq' = frame(aq, CalmFrame)
    /\ DriverGoto("getch")
    /\ UNCHANGED <<script, sent, tev>>
    /\ UNCHANGED serverVars

\* An exception out of the loop (KeyboardInterrupt, curses.error, an error of
\* a handler): it leaves run() for the finally block.
DriverRaise ==
    /\ Driver \in {"getch", "events", "frame"}
    /\ DriverGoto("raised")
    /\ UNCHANGED <<aq, script, sent, tev>>
    /\ UNCHANGED serverVars

\* finally: server.stop()
DriverStopCall == Driver \in {"quit", "raised"} /\ stopCalls = 0 /\ StopCall

DriverStopStep ==
    /\ Driver \in {"quit", "raised"}
    /\ StopJoin \/ StopClose \/ StopExists \/ StopUnlink

\* server.stop() has returned: run_tui returns, or the exception goes on.
DriverExit ==
    /\ Driver \in {"quit", "raised"}
    /\ mainPc = "stopped"
    /\ DriverGoto("exit")
    /\ UNCHANGED <<aq, script, sent, tev>>
    /\ UNCHANGED serverVars

\* The threads of the server and one client, for as long as the process lives.
\* What the client of the run sends: the records of the concurrent runs, or
\* the start and the end of one MCP tool call.
DriverPayloads ==
    ConcPayloads \cup
    { Payload(<<Rec("object", [event |-> "tool_start", agent_id |-> "a1",
                               tool_name |-> "mcp__notion__search"], FALSE),
                Rec("object", [event |-> "tool_end", agent_id |-> "a1",
                               tool_name |-> "mcp__notion__search"], FALSE)>>, TRUE) }

DriverServerStep ==
    /\ Driver # "exit"
    /\ AcceptStep \/ Connect(1, DriverPayloads) \/ HandlerStep(1)

NextDriver ==
    \/ DriverStart
    \/ DriverStartRaised
    \/ DriverConstruct
    \/ DriverKey
    \/ DriverBreak
    \/ DriverOtherKey
    \/ DriverProcessEvents
    \/ DriverFrame
    \/ DriverRaise
    \/ DriverStopCall
    \/ DriverStopStep
    \/ DriverExit
    \/ DriverServerStep

SpecDriver == InitDriver /\ [][NextDriver]_vars

\* ------------------------------------------------------- the hook sender
\* hook_sender.py, run once per hook of Claude Code: main() reads the hook's
\* JSON object from stdin, build_event_from_hook turns it into a record, and
\* send_to_socket writes the record and "\n" to the server's socket.

\* os.path.basename(path), and the two middle parts of an MCP tool's name.
Basename(path) == IF path = "/src/main.py" THEN "main.py" ELSE path
McpSummary(tool_name) ==
    CASE tool_name = "mcp__codex__codex" -> "codex:codex"
      [] tool_name = "mcp__notion__search" -> "notion:search"
      [] OTHER -> tool_name

\* _summarize_tool_input; the inputs are shorter than the slices it takes.
summarize_tool_input(tool_name, tool_input) ==
    CASE tool_name = "Bash" -> Get(tool_input, "command", "")
      [] tool_name \in {"Read", "Write", "Edit"} ->
            IF Get(tool_input, "file_path", "") # ""
            THEN Basename(tool_input.file_path) ELSE ""
      [] tool_name \in {"Grep", "Glob"} -> Get(tool_input, "pattern", "")
      [] tool_name = "WebSearch" -> Get(tool_input, "query", "")
      [] tool_name = "WebFetch" -> Get(tool_input, "url", "")
      [] tool_name = "Task" -> Get(tool_input, "description", "")
      [] StartsWith(tool_name, "mcp__") -> McpSummary(tool_name)
      [] OTHER -> ""

EmptyDict == [x \in {} |-> ""]

\* The None that build_event_from_hook returns for a hook it does not know.
NoRecord == [returns |-> "None"]

\* A sender that knows the two PostToolUse hooks only and reports a failed
\* tool call as a successful one.
build_event_from_hook_all_fine(hook_input) ==
    LET hook_name == Get(hook_input, "hook_event_name", "") IN
    IF hook_name \in {"PostToolUse", "PostToolUseFailure"}
    THEN [event |-> "tool_end", tool_name |-> Get(hook_input, "tool_name", ""),
          success |-> TRUE, agent_id |-> Get(hook_input, "agent_id", ""),
          timestamp |-> WallClock]
    ELSE NoRecord

build_event_from_hook(hook_input) ==
    LET hook_name == Get(hook_input, "hook_event_name", "")
        ts == WallClock
    IN CASE hook_name = "SubagentStart" ->
              [event |-> "agent_start",
               agent_id |-> Get(hook_input, "agent_id", ""),
               agent_type |-> Get(hook_input, "agent_type", ""),
               description |-> Get(hook_input, "description", ""),
               timestamp |-> ts]
         [] hook_name = "SubagentStop" ->
              [event |-> "agent_stop",
               agent_id |-> Get(hook_input, "agent_id", ""),
               agent_type |-> Get(hook_input, "agent_type", ""),
               error |-> Get(hook_input, "error", FALSE),
               timestamp |-> ts]
         [] hook_name = "PreToolUse" ->
              [event |-> "tool_start",
               tool_name |-> Get(hook_input, "tool_name", ""),
               tool_input_summary |->
                   summarize_tool_input(Get(hook_input, "tool_name", ""),
                                        Get(hook_input, "tool_input", EmptyDict)),
               agent_id |-> Get(hook_input, "agent_id", ""),
               timestamp |-> ts]
         [] hook_name = "PostToolUse" ->
              [event |-> "tool_end",
               tool_name |-> Get(hook_input, "tool_name", ""),
               success |-> TRUE,
               agent_id |-> Get(hook_input, "agent_id", ""),
               timestamp |-> ts]
         [] hook_name = "PostToolUseFailure" ->
              [event |-> "tool_end",
               tool_name |-> Get(hook_input, "tool_name", ""),
               success |-> FALSE,
               agent_id |-> Get(hook_input, "agent_id", ""),
               timestamp |-> ts]
         [] hook_name = "TaskCompleted" ->
              [event |-> "task_completed",
               task_subject |-> Get(hook_input, "task_subject", ""),
               timestamp |-> ts]
         [] OTHER -> NoRecord

\* What Claude Code hands to the sender: the six hooks the sender knows, with
\* their fields and without them, hooks it does not know, and an object
\* without hook_event_name.
HookInputs ==
    { [hook_event_name |-> "SubagentStart", agent_id |-> "a1", agent_type |-> "Explore",
       description |-> "d"],
      [hook_event_name |-> "SubagentStart"],
      [hook_event_name |-> "SubagentStop", agent_id |-> "a1", agent_type |-> "Explore"],
      [hook_event_name |-> "SubagentStop", agent_id |-> "a1", error |-> TRUE],
      [hook_event_name |-> "PreToolUse", tool_name |-> "Bash", agent_id |-> "a1",
       tool_input |-> [command |-> "ls"]],
      [hook_event_name |-> "PreToolUse", tool_name |-> "Read",
       tool_input |-> [file_path |-> "/src/main.py"]],
      [hook_event_name |-> "PreToolUse", tool_name |-> "mcp__codex__codex"],
      [hook_event_name |-> "PreToolUse"],
      [hook_event_name |-> "PostToolUse", tool_name |-> "Bash", agent_id |-> "a1"],
      [hook_event_name |-> "PostToolUse", tool_name |-> "Bash", success |-> FALSE],
      [hook_event_name |-> "PostToolUseFailure", tool_name |-> "Bash", agent_id |-> "a1"],
      [hook_event_name |-> "PostToolUseFailure"],
      [hook_event_name |-> "TaskCompleted", task_subject |-> "t1"],
      [hook_event_name |-> "TaskCompleted"],
      [hook_event_name |-> "Stop", agent_id |-> "a1"],
      [hook_event_name |-> "Notification", event |-> "agent_start"],
      [hook_event_name |-> "subagentstart", agent_id |-> "a1"],
      [agent_id |-> "a1", event |-> "agent_start"] }

\* The server, and a hook that has fired: script holds the object on the
\* sender's stdin, sent counts the runs of the sender.
InitHook ==
    /\ ServerInit
    /\ aq = NewAquarium(2, 2, 1, Tenths(4))
    /\ script \in HookInputs
    /\ sent = 0
    /\ tpc = [t \in Threads |-> "idle"]
    /\ tev = [t \in Threads |-> NoEvent]

\* main(): event = build_event_from_hook(hook_input); if event:
\* send_to_socket(...): s.connect, s.sendall(json.dumps(data) + "\n"), close.
HookSend ==
    /\ sent = 0
    /\ build_event_from_hook(script) # NoRecord
    /\ CanConnect(1)
    /\ payload' = [payload EXCEPT ![1] =
                      Payload(<<Rec("object", build_event_from_hook(script), FALSE)>>, TRUE)]
    /\ conn' = [conn EXCEPT ![1] = "backlog"]
    /\ sent' = 1
    /\ UNCHANGED <<lifeVars, handlerVars, queueVars, drainVars, histVars>>
    /\ UNCHANGED <<aq, script, tpc, tev>>

\* main() with nothing to send, or with no server to take it (the OSError of
\* connect is swallowed).
HookSkip ==
    /\ sent = 0
    /\ build_event_from_hook(script) = NoRecord \/ ~CanConnect(1)
    /\ sent' = 1
    /\ UNCHANGED <<aq, script, tpc, tev>>
    /\ UNCHANGED serverVars

NextHook ==
    \/ StartStep
    \/ AcceptStep
    \/ HookSend
    \/ HookSkip
    \/ HandlerStep(1)
    \/ DrainStep

SpecHook == InitHook /\ [][NextHook]_vars

\* ------------------------------------------- external-tool creatures
\* Calls of one MCP tool by one agent, started and ended: each is a dolphin.
CreatureEvents ==
    { Event([event |-> k, agent_id |-> "a1", tool_name |-> "mcp__notion__search"]) :
        k \in {"tool_start", "tool_end"} }

\* The calls start during the first frames of the run and end at any time.
CreatureEvent ==
    \E ev \in CreatureEvents :
        /\ aq.stats.total_events < MaxEvents
        /\ ev.kind = "tool_start" => aq.tick < MaxTicks
        /\ Handle(ev)

\* What a frame draws from random for the creatures: the first MaxWild of
\* them may turn around or start a jump.
CreatureFrames ==
    [flips : {{}}, turns : SUBSET (1..MaxWild), jumps : SUBSET (1..MaxWild)]

\* One of the first frames of the run, in which a creature turns around or
\* starts a jump.
WildTick ==
    /\ aq.tick < MaxTicks
    /\ \E r \in CreatureFrames \ {CalmFrame} : Frame(r)

NextCreatures == CreatureEvent \/ WildTick \/ CalmTick

SpecCreatures == InitAquarium /\ [][NextCreatures]_vars

\* The render loop keeps running: a frame follows every 50 ms.
SpecCreaturesFair == SpecCreatures /\ WF_vars(CalmTick)

\* --------------------------------------------------- tool-call creatures
\* An agent that starts, tool calls of that agent and of an agent that never
\* started, by a plain tool and by an MCP tool, and the end of a call.
HelperEvents ==
    { Event([event |-> "agent_start", agent_id |-> "a1", agent_type |-> "Explore"]),
      Event([event |-> "tool_start", agent_id |-> "a1", tool_name |-> "Read"]),
      Event([event |-> "tool_start", agent_id |-> "a1", tool_name |-> "mcp__notion__search"]),
      Event([event |-> "tool_start", agent_id |-> "ghost", tool_name |-> "Read"]),
      Event([event |-> "tool_end", agent_id |-> "a1", tool_name |-> "Read"]) }

\* A slow fish; the tool creature is drawn or not.
HelperDraws == {r \in Draws : r.speed = Tenths(3)}

\* The events arrive during the first frames of the run.
HelperEvent ==
    \E ev \in HelperEvents :
        /\ aq.stats.total_events < MaxEvents
        /\ aq.tick < MaxTicks
        /\ ev.kind = "agent_start" => aq.total_agents < MaxAgents
        /\ Idle
        /\ \E r \in HelperDraws : aq' = handle_event(aq, ev, r)
        /\ UNCHANGED <<script, sent, tpc, tev>>
        /\ UNCHANGED serverVars

NextHelpers == HelperEvent \/ CalmTick

SpecHelpers == InitAquarium /\ [][NextHelpers]_vars

\* The render loop keeps running: a frame follows every 50 ms.
SpecHelpersFair == SpecHelpers /\ WF_vars(CalmTick)

\* ------------------------------------------------- the aquarium's lock
\* self.lock = threading.Lock() is not reentrant: aq.lock names the thread
\* that holds it, or is "free".  What a thread has still to do is kept in
\* tpc as a list of steps: take the lock, give it back, or call one of a set
\* of functions (the branch taken decides which).
AcquireOp == [op |-> "acquire", f |-> {}]
ReleaseOp == [op |-> "release", f |-> {}]
CallOp(fs) == [op |-> "call", f |-> fs]
Locked(ops) == <<AcquireOp>> \o ops \o <<ReleaseOp>>

\* The functions _handle_event dispatches to.
EventHandlers ==
    {"_on_agent_start", "_on_agent_stop", "_on_tool_start", "_on_creature_end",
     "_on_task_completed", "pass"}

\* The functions that take the lock as the selection helper does.
SelfLocking == {"_get_selectable_fish", "_draw_hud", "_draw_stats_panel"}

\* The body of run() with a lock-taking helper called inside the first locked
\* block.
BodyReentrant(f) ==
    CASE f = "run" ->
            <<CallOp({"spawn_demo_agent", "_get_selectable_fish", "pass"}),
              CallOp({"_process_events"}),
              CallOp({"_get_selectable_fish"})>>
            \o Locked(<<CallOp({"_update_fish"}), CallOp({"_draw_fish"}),
                        CallOp({"_get_selectable_fish"}),
                        CallOp({"_update_creature"}), CallOp({"_draw_creature"})>>)
            \o Locked(<<CallOp({"_update_tool_bubbles"}), CallOp({"_draw_tool_bubbles"}),
                        CallOp({"_update_tool_creatures"}), CallOp({"_draw_tool_creatures"})>>)
            \o <<CallOp({"_draw_hud"}), CallOp({"_draw_panel"})>>
      [] f = "spawn_demo_agent" -> <<CallOp({"_handle_event"})>>
      [] f = "_process_events" -> <<CallOp({"_handle_event", "pass"})>>
      [] f = "_handle_event" ->
            <<CallOp(EventHandlers), CallOp({"_record_event"}), CallOp({"_check_milestones"})>>
      [] f = "_check_milestones" -> <<CallOp({"_record_event", "pass"})>>
      [] f = "_on_tool_start" ->
            <<CallOp({"mcp_tool_to_creature_type"}), CallOp({"_on_mcp_tool", "bubble"})>>
      [] f = "bubble" -> Locked(<<>>)
      [] f = "_on_agent_start" -> <<CallOp({"agent_type_to_art_idx"})>> \o Locked(<<>>)
      [] f \in {"_on_agent_stop", "_on_mcp_tool", "_on_creature_end", "_on_task_completed"} ->
            Locked(<<>>)
      [] f \in SelfLocking -> Locked(<<>>)
      [] f = "_draw_panel" ->
            <<CallOp({"_draw_log_panel", "_draw_stats_panel", "_draw_detail_panel"})>>
      [] f = "_draw_detail_panel" -> <<CallOp({"_get_selectable_fish"})>>
      [] OTHER -> <<>>

\* What each function of aquarium.py does with the lock: the blocks under
\* `with self.lock` and the calls made inside and outside them.  "pass" is a
\* branch that calls nothing, "bubble" the locked block of _on_tool_start; a
\* function that is not listed neither takes the lock nor calls one that does.
Body(f) ==
    CASE f = "run" ->
            <<CallOp({"spawn_demo_agent", "_get_selectable_fish", "pass"}),
              CallOp({"_process_events"}),
              CallOp({"_get_selectable_fish"})>>
            \o Locked(<<CallOp({"_update_fish"}), CallOp({"_draw_fish"}),
                        CallOp({"_get_selectable_fish_unlocked"}),
                        CallOp({"_update_creature"}), CallOp({"_draw_creature"})>>)
            \o Locked(<<CallOp({"_update_tool_bubbles"}), CallOp({"_draw_tool_bubbles"}),
                        CallOp({"_update_tool_creatures"}), CallOp({"_draw_tool_creatures"})>>)
            \o <<CallOp({"_draw_hud"}), CallOp({"_draw_panel"})>>
      [] f = "spawn_demo_agent" -> <<CallOp({"_handle_event"})>>
      [] f = "_process_events" -> <<CallOp({"_handle_event", "pass"})>>
      [] f = "_handle_event" ->
            <<CallOp(EventHandlers), CallOp({"_record_event"}), CallOp({"_check_milestones"})>>
      [] f = "_check_milestones" -> <<CallOp({"_record_event", "pass"})>>
      [] f = "_on_tool_start" ->
            <<CallOp({"mcp_tool_to_creature_type"}), CallOp({"_on_mcp_tool", "bubble"})>>
      [] f = "bubble" -> Locked(<<>>)
      [] f = "_on_agent_start" -> <<CallOp({"agent_type_to_art_idx"})>> \o Locked(<<>>)
      [] f \in {"_on_agent_stop", "_on_mcp_tool", "_on_creature_end", "_on_task_completed"} ->
            Locked(<<>>)
      [] f = "_get_selectable_fish" -> Locked(<<CallOp({"_get_selectable_fish_unlocked"})>>)
      [] f \in {"_draw_hud", "_draw_stats_panel"} -> Locked(<<>>)
      [] f = "_draw_panel" ->
            <<CallOp({"_draw_log_panel", "_draw_stats_panel", "_draw_detail_panel"})>>
      [] f = "_draw_detail_panel" -> <<CallOp({"_get_selectable_fish"})>>
      [] OTHER -> <<>>

\* The render thread runs the body of run() again and again; a lifecycle
\* thread of spawn_demo_agent calls _handle_event again and again.
EntryOf(t) == IF t = "render" THEN "run" ELSE "_handle_event"

InitLocks ==
    /\ ServerInit
    /\ fsPath = "absent"
    /\ bindable
    /\ aq = NewAquarium(2, 2, 1, Tenths(4))
    /\ script = NoScript
    /\ sent = 0
    /\ tpc = [t \in Threads |-> <<>>]
    /\ tev = [t \in Threads |-> NoEvent]

\* The thread has nothing left to do and starts over.
LockEnter(t) ==
    /\ tpc[t] = <<>>
    /\ tpc' = [tpc EXCEPT ![t] = <<CallOp({EntryOf(t)})>>]
    /\ UNCHANGED <<aq, script, sent, tev>>
    /\ UNCHANGED serverVars

\* The thread calls a function: what the function does comes first.
LockCall(t) ==
    /\ tpc[t] # <<>>
    /\ Head(tpc[t]).op = "call"
    /\ \E f \in Head(tpc[t]).f : tpc' = [tpc EXCEPT ![t] = Body(f) \o Tail(@)]
    /\ UNCHANGED <<aq, script, sent, tev>>
    /\ UNCHANGED serverVars

\* with self.lock: the thread waits until the lock is free, whoever holds it.
LockAcquire(t) ==
    /\ tpc[t] # <<>>
    /\ Head(tpc[t]).op = "acquire"
    /\ aq.lock = "free"
    /\ aq' = [aq EXCEPT !.lock = t]
    /\ tpc' = [tpc EXCEPT ![t] = Tail(@)]
    /\ UNCHANGED <<script, sent, tev>>
    /\ UNCHANGED serverVars

\* The end of the with block.
LockRelease(t) ==
    /\ tpc[t] # <<>>
    /\ Head(tpc[t]).op = "release"
    /\ aq' = [aq EXCEPT !.lock = "free"]
    /\ tpc' = [tpc EXCEPT ![t] = Tail(@)]
    /\ UNCHANGED <<script, sent, tev>>
    /\ UNCHANGED serverVars

NextLocks ==
    \E t \in Threads : LockEnter(t) \/ LockCall(t) \/ LockAcquire(t) \/ LockRelease(t)

SpecLocks == InitLocks /\ [][NextLocks]_vars

\* ------------------------------------- _record_event, statement by statement
\* _record_event holds no lock.  Two threads are in _handle_event: the render
\* loop and a lifecycle thread of spawn_demo_agent, which takes part in the
\* last RaceWindow events of the session.  tpc keeps, for each thread, the
\* statement it is at and its temporaries: the slice self.event_log[-200:]
\* before it is stored, and the value of self.stats.total_events that `+= 1`
\* has read before it writes.  The events are of a kind no handler knows, so
\* that nothing else of the aquarium changes.
RecordSessions ==
    {[kind |-> "ping", starts |-> n, ends |-> 0] : n \in {RaceWindow, SessionLen}}

RecAt(t, pc) == tpc[t].pc = pc
RecGoto(t, pc) == tpc' = [tpc EXCEPT ![t].pc = pc]

InitRecord ==
    /\ ServerInit
    /\ fsPath = "absent"
    /\ bindable
    /\ aq = NewAquarium(2, 2, 1, Tenths(4))
    /\ script \in RecordSessions
    /\ sent = 0
    /\ tpc = [t \in Threads |-> [pc |-> "idle", kept |-> <<>>, n |-> 0]]
    /\ tev = [t \in Threads |-> NoEvent]

\* _handle_event(ev) up to the call of _record_event: the handler of the kind.
RecCall(t) ==
    /\ RecAt(t, "idle")
    /\ sent < script.starts
    /\ t = "demo" => sent >= script.starts - RaceWindow
    /\ tev' = [tev EXCEPT ![t] = ScriptEvent(script, sent + 1)]
    /\ \E r \in SessionDraws : aq' = dispatch(aq, ScriptEvent(script, sent + 1), r)
    /\ sent' = sent + 1
    /\ RecGoto(t, "append")
    /\ UNCHANGED script
    /\ UNCHANGED serverVars

\* self.event_log.append(EventLogEntry(...))
RecAppend(t) ==
    /\ RecAt(t, "append")
    /\ aq' = [aq EXCEPT !.event_log =
                 Append(@, EventLogEntry(tev[t].timestamp, tev[t].kind, Detail(tev[t])))]
    /\ RecGoto(t, "test")
    /\ UNCHANGED <<script, sent, tev>>
    /\ UNCHANGED serverVars

\* if len(self.event_log) > 200:
RecTest(t) ==
    /\ RecAt(t, "test")
    /\ RecGoto(t, IF Len(aq.event_log) > LogCap THEN "slice" ELSE "load")
    /\ UNCHANGED <<aq, script, sent, tev>>
    /\ UNCHANGED serverVars

\* self.event_log[-200:], the right-hand side of the assignment
RecSlice(t) ==
    /\ RecAt(t, "slice")
    /\ tpc' = [tpc EXCEPT ![t].pc = "store", ![t].kept = LastN(aq.event_log, LogCap)]
    /\ UNCHANGED <<aq, script, sent, tev>>
    /\ UNCHANGED serverVars

\* self.event_log = ...
RecStore(t) ==
    /\ RecAt(t, "store")
    /\ aq' = [aq EXCEPT !.event_log = tpc[t].kept]
    /\ RecGoto(t, "load")
    /\ UNCHANGED <<script, sent, tev>>
    /\ UNCHANGED serverVars

\* self.stats.total_events += 1: the read
RecLoad(t) ==
    /\ RecAt(t, "load")
    /\ tpc' = [tpc EXCEPT ![t].pc = "add", ![t].n = aq.stats.total_events]
    /\ UNCHANGED <<aq, script, sent, tev>>
    /\ UNCHANGED serverVars

\* self.stats.total_events += 1: the write; then self._check_milestones(h, w)
RecAdd(t) ==
    /\ RecAt(t, "add")
    /\ aq' = check_milestones([aq EXCEPT !.stats.total_events = tpc[t].n + 1])
    /\ RecGoto(t, "idle")
    /\ UNCHANGED <<script, sent, tev>>
    /\ UNCHANGED serverVars

NextRecord ==
    \E t \in Threads :
        \/ RecCall(t) \/ RecAppend(t) \/ RecTest(t) \/ RecSlice(t)
        \/ RecStore(t) \/ RecLoad(t) \/ RecAdd(t)

SpecRecord == InitRecord /\ [][NextRecord]_vars

\* ------------------------------------------------ a fish swimming at random
\* One sub-agent starts; in every frame random.random() < 0.02 may turn its
\* fish around.  The turn-around margins of _update_fish are x < 5 and
\* x > w - fw - 5.  A fish more than MaxDrift cells beyond a margin is not
\* turned at random any more (the bound that keeps the positions finite).
LeftMargin == 5 * Scale
RightMargin(fish) == (Width - FishArtWidth(fish.art_idx) - 5) * Scale

SwimStart ==
    /\ aq.total_agents < 1
    /\ Handle(Event([event |-> "agent_start", agent_id |-> "a1", agent_type |-> "Explore"]))

SwimTick ==
    \E flips \in SUBSET {aq.fishes[i].uid : i \in DOMAIN aq.fishes} :
        /\ \A i \in DOMAIN aq.fishes :
              aq.fishes[i].uid \in flips =>
                  /\ aq.fishes[i].x >= LeftMargin - MaxDrift * Scale
                  /\ aq.fishes[i].x <= RightMargin(aq.fishes[i]) + MaxDrift * Scale
        /\ Frame([CalmFrame EXCEPT !.flips = flips])

NextSwim == SwimStart \/ SwimTick

SpecSwim == InitAquarium /\ [][NextSwim]_vars

\* ------------------------------------------------------ the panel selection
\* The keys run() reads with getch() that touch the selection or the panel.
Keys == {"KEY_LEFT", "KEY_RIGHT", "Esc", "Tab"}

\* run(): the handling of one key.
on_key(a, key) ==
    LET n == Len(get_selectable_fish(a))
    IN CASE key = "Tab" ->
              [a EXCEPT !.panel_mode = IF @ = "log" THEN "stats" ELSE "log"]
         [] key = "KEY_LEFT" /\ n > 0 ->
              [a EXCEPT !.selected_fish_idx = (@ - 1) % n, !.panel_mode = "detail"]
         [] key = "KEY_RIGHT" /\ n > 0 ->
              [a EXCEPT !.selected_fish_idx = (@ + 1) % n, !.panel_mode = "detail"]
         [] key = "Esc" ->
              [a EXCEPT !.selected_fish_idx = -1,
                        !.panel_mode = IF @ = "detail" THEN "log" ELSE @]
         [] OTHER -> a

\* One pass of the loop of run(): a key if one was pressed, the events that
\* have arrived, the frame.  tpc["render"] is where the pass is: "idle" at
\* the top, "key" after the key, "events" after an event.
InitSelect ==
    /\ ServerInit
    /\ fsPath = "absent"
    /\ bindable
    /\ aq = NewAquarium(2, 2, 1, Tenths(4))
    /\ script = NoScript
    /\ sent = 0
    /\ tpc = [t \in Threads |-> "idle"]
    /\ tev = [t \in Threads |-> NoEvent]

SelectKey ==
    /\ tpc["render"] = "idle"
    /\ \E key \in Keys : aq' = on_key(aq, key)
    /\ tpc' = [tpc EXCEPT !["render"] = "key"]
    /\ UNCHANGED <<script, sent, tev>>
    /\ UNCHANGED serverVars

SelectEvents ==
    { Event([event |-> "agent_start", agent_id |-> id, agent_type |-> "Explore"]) :
        id \in {"a1", "a2"} } \cup
    { Event([event |-> "agent_stop", agent_id |-> id, agent_type |-> "Explore", error |-> FALSE]) :
        id \in {"a1", "a2"} }

\* _process_events: one event.  Every agent starts once, a1 before a2
\* (agent ids are unique), and within the first frames.
SelectEvent ==
    \E ev \in SelectEvents : \E r \in HelperDraws :
        /\ aq.stats.total_events < MaxEvents
        /\ aq.tick < MaxTicks
        /\ ev.kind = "agent_start" =>
              /\ aq.total_agents < MaxSelectable
              /\ ev.agent_id = (IF aq.total_agents = 0 THEN "a1" ELSE "a2")
        /\ aq' = handle_event(aq, ev, r)
        /\ tpc' = [tpc EXCEPT !["render"] = "events"]
        /\ UNCHANGED <<script, sent, tev>>
        /\ UNCHANGED serverVars

SelectFrame ==
    /\ aq' = frame(aq, CalmFrame)
    /\ tpc' = [tpc EXCEPT !["render"] = "idle"]
    /\ UNCHANGED <<script, sent, tev>>
    /\ UNCHANGED serverVars

NextSelect == SelectKey \/ SelectEvent \/ SelectFrame

SpecSelect == InitSelect /\ [][NextSelect]_vars

\* ================================================================ claims

\* The events appended and not yet returned by a drain_events call.
Pending == SubSeq(appended, Len(delivered) + 1, Len(appended))

\* C1: the queue never holds more than 500 events, and as long as no drain
\* has emptied it, it holds the most recent 500 of the events appended, in
\* arrival order, the ones dropped being the oldest.
C1_QueueKeepsMostRecent ==
    /\ Len(queue) <= QueueMaxLen
    /\ (~drained /\ dpc # "return") =>
          /\ Ids(queue) = LastN(appended, QueueMaxLen)
          /\ evicted = SubSeq(appended, 1, Len(appended) - Len(queue))

\* More than 500 events were appended without a drain, and 500 are queued.
C1_Witness ==
    /\ ~drained /\ dpc = "idle"
    /\ Len(appended) > QueueMaxLen
    /\ Len(queue) = QueueMaxLen
    /\ Len(evicted) > 0

\* C2: drain_events returns what the queue held, in arrival order, and
\* leaves the queue empty; a call that returns with no append since the call
\* before returned gives an empty list.
C2_DrainEmptiesQueue ==
    /\ dpc = "return" => (queue = <<>> /\ Ids(events) = Pending)
    /\ (drained /\ ~sinceReturn /\ dpc = "idle") => queue = <<>>
    /\ quietDrain => lastResult = <<>>

\* A drain returned events, and the call right after it returned none.
C2_Witness ==
    /\ quietDrain
    /\ dpc = "idle"
    /\ Len(delivered) > 0
    /\ Len(delivered) = Len(appended)

\* C3: with handler threads appending and the render thread draining in any
\* interleaving (nothing evicted), the events returned so far, then those a
\* returning drain holds, then those queued, are the events appended, in the
\* order of their appends: none lost, none twice; and the events of one
\* connection were appended in the order of its lines.
C3_NoLossNoDuplication ==
    evicted = <<>> =>
      /\ delivered \o (IF dpc = "return" THEN Ids(events) ELSE <<>>) \o Ids(queue)
            = appended
      /\ \A i, j \in 1..Len(appended) :
            (i < j /\ appended[i][1] = appended[j][1]) => appended[i][2] < appended[j][2]

\* Both connections appended, their events interleaved, and two drains each
\* returned some of them.
C3_Witness ==
    /\ Len(appended) >= 3
    /\ appended[1][1] # appended[2][1]
    /\ Len(delivered) = Len(appended)
    /\ lastResult # <<>>
    /\ Len(lastResult) < Len(delivered)
    /\ dpc = "idle"

\* A record that is a JSON object with a non-empty discriminator.
WellFormed(r) == r.json = "object" /\ Truthy(Get(r.obj, "event", PyNone))

\* A line that is not JSON, is JSON but no object, or is an object whose
\* discriminator is missing or empty.
Malformed(r) ==
    \/ r.json \in {"invalid", "array"}
    \/ r.json = "object" /\ ~Truthy(Get(r.obj, "event", PyNone))

Appended(c, i) == \E k \in 1..Len(appended) : appended[k] = <<c, i>>

\* C4: the N well-formed records of one connection are the N events, in
\* order, of the one drain_events call that returns events after the
\* handler closed the connection.
C4_AllRecordsObserved ==
    \A c \in Conns :
       ( /\ \A i \in 1..Len(payload[c].recs) : WellFormed(payload[c].recs[i])
         /\ hres[c] = "ok"
         /\ drained /\ dpc = "idle" /\ queue = <<>>
         /\ delivered = Ids(lastResult) )
       => [i \in 1..Len(lastResult) |-> lastResult[i].ev]
             = [i \in 1..Len(payload[c].recs) |-> Event(payload[c].recs[i].obj)]

\* C5: a malformed line makes parse_event return None, raises nothing and
\* leaves the length of the queue as it was.
C5_MalformedLineIgnored ==
    [][\A c \in Conns :
          ( /\ hpc[c] = "lines"
            /\ idx[c] <= Len(lines[c])
            /\ Malformed(lines[c][idx[c]])
            /\ <<hpc[c], idx[c]>>' # <<hpc[c], idx[c]>> )
          => ( /\ parse_event(lines[c][idx[c]]) = ParseNone
               /\ hres'[c] # "crashed"
               /\ Len(queue') = Len(queue) )]_vars

\* The events the server holds or has handed out.
Produced ==
    {queue[i] : i \in 1..Len(queue)} \cup {events[i] : i \in 1..Len(events)}
        \cup {lastResult[i] : i \in 1..Len(lastResult)}

SourceOf(item) == lines[item.id[1]][item.id[2]].obj

TextFields ==
    {"agent_id", "agent_type", "description", "tool_name", "tool_input_summary",
     "task_subject"}

DefaultsAre(item, successDefault) ==
    LET d == SourceOf(item)
    IN /\ Truthy(item.ev.kind)
       /\ \A f \in TextFields \ DOMAIN d : item.ev[f] = ""
       /\ "error" \notin DOMAIN d => item.ev.error = FALSE
       /\ "success" \notin DOMAIN d => item.ev.success = successDefault
       /\ "timestamp" \notin DOMAIN d => item.ev.timestamp = 0

\* C6 (as amended): every event of parse_event has kind set, and a field the
\* record lacks takes its default: the empty string for a text field, false
\* for error, true for success, 0 for timestamp.
C6_DefaultsSuccessTrue == \A it \in Produced : DefaultsAre(it, TRUE)

\* C6 as stated: the default of success is false.
C6_DefaultsSuccessFalse == \A it \in Produced : DefaultsAre(it, FALSE)

\* An event decoded from a record that has only its discriminator and one
\* text field is queued.
C6_Witness ==
    \E i \in 1..Len(queue) :
        DOMAIN SourceOf(queue[i]) = {"event", "tool_name"}

\* C7: when recv raises after records arrived, the events of the records
\* received so far are queued.
C7_BrokenReadKeepsLines ==
    \A c \in Conns :
       ( /\ hres[c] = "oserror"
         /\ got[c] > 0
         /\ \A i \in 1..got[c] : WellFormed(payload[c].recs[i]) /\ ~payload[c].recs[i].usep )
       => \A i \in 1..got[c] : Appended(c, i)

LastRec(c) == payload[c].recs[Len(payload[c].recs)]

\* C8 as stated: a trailing line no newline ends never produces a queued
\* event.
C8_UnterminatedIgnored ==
    \A c \in Conns :
       ( /\ ~payload[c].term
         /\ hpc[c] \in {"lines", "append", "closed"}
         /\ hres[c] # "oserror"
         /\ Len(lines[c]) > 0 )
       => ~Appended(c, Len(lines[c]))

\* C8 (as amended): a trailing line no newline ends is a line like the
\* others: when the handler's loop has run to its end, that line has
\* produced a queued event exactly if it is a complete well-formed record.
C8_UnterminatedDecoded ==
    \A c \in Conns :
       ( /\ ~payload[c].term
         /\ Len(payload[c].recs) > 0
         /\ hres[c] = "ok" )
       => /\ Len(lines[c]) = Len(payload[c].recs) + Cuts(payload[c].recs, Len(payload[c].recs))
          /\ (WellFormed(LastRec(c)) /\ ~LastRec(c).usep) <=> Appended(c, Len(lines[c]))

\* The handler is through a payload whose last record, complete and
\* well-formed, no newline ends; its event was queued.
C8_Witness ==
    \E c \in Conns :
       /\ ~payload[c].term
       /\ Len(payload[c].recs) > 0
       /\ hres[c] = "ok"
       /\ WellFormed(LastRec(c))
       /\ Appended(c, Len(lines[c]))

\* C9: when start() has returned, the socket is bound and listening and the
\* accept thread was started after that; the accept thread never runs on a
\* socket that is not listening yet; and start() raises only where the
\* directory refuses the bind or the entry found cannot be removed, never
\* over a socket file a previous run left.
C9_StartBindsBeforeReturning ==
    /\ mainPc = "started" =>
          (sock = "listening" /\ fsPath = "socket" /\ running /\ acceptPc # "none")
    /\ acceptPc # "none" => sock \in {"listening", "closed"}
    /\ mainPc = "start_failed" => (~bindable \/ fsPath = "foreign")

\* start() has returned after removing the socket file it found.
C9_Witness == mainPc = "started" /\ unlinked /\ sock = "listening"

\* C10: stop() raises nothing, whether called after start() returned, after
\* start() raised or after an earlier stop(); when it has returned the
\* socket is closed and nothing is left at sock_path.
C10_StopIsSafe ==
    /\ mainPc # "stop_raised"
    /\ mainPc = "stopped" =>
          (sock \in {"none", "closed"} /\ fsPath = "absent" /\ ~running)

\* C11: once stop() has been called on a started server the accept loop
\* eventually exits; with _running cleared the next evaluation of the loop
\* condition leaves the loop (so at most the accept() call in flight
\* completes), and an exited loop accepts no connection and starts no
\* handler thread.
C11_AcceptLoopExits ==
    /\ (stopCalls > 0 /\ acceptPc # "none") ~> (acceptPc = "exited")
    /\ [][/\ (~running /\ acceptPc = "check") => acceptPc' \in {"check", "exited"}
          /\ acceptPc = "exited" =>
                /\ acceptPc' = "exited"
                /\ \A c \in Conns : conn'[c] = "accepted" => conn[c] = "accepted"
                /\ hpc' = hpc
         ]_vars

\* stop() was called while the socket was still open, and the loop has ended.
C11_Witness ==
    /\ stopCalls > 0
    /\ ~running
    /\ sock = "listening"
    /\ acceptPc = "exited"

\* The fish of an aquarium by uid.
Uids == 1..MaxAgents
HasFish(a, u) == \E i \in DOMAIN a.fishes : a.fishes[i].uid = u
FishWith(a, u) == a.fishes[CHOOSE i \in DOMAIN a.fishes : a.fishes[i].uid = u]
Live == {"spawning", "working"}
Over == {"done", "error"}
StopEvents == {ev \in AgentEvents : ev.kind = "agent_stop"}

\* This step is _handle_event(ev).
Handles(ev) == \E r \in Draws : aq' = handle_event(aq, ev, r)

\* A fish appears as spawning, turns working only from spawning, and never
\* turns spawning again.
StatusPath ==
    \A u \in Uids :
        /\ (~HasFish(aq, u) /\ HasFish(aq', u)) => FishWith(aq', u).status = "spawning"
        /\ (HasFish(aq, u) /\ HasFish(aq', u)) =>
              /\ FishWith(aq', u).status = "spawning" => FishWith(aq, u).status = "spawning"
              /\ FishWith(aq', u).status = "working" => FishWith(aq, u).status \in Live

\* An agent_stop takes every spawning or working fish of its id to done or to
\* error, and counts one error for each fish it takes to error; no other
\* step ends a fish or counts an error.
FirstStop ==
    /\ \A ev \in StopEvents : Handles(ev) =>
          /\ \A u \in Uids :
                (HasFish(aq, u) /\ FishWith(aq, u).agent_id = ev.agent_id
                    /\ FishWith(aq, u).status \in Live)
                => /\ HasFish(aq', u)
                   /\ FishWith(aq', u).status = IF ev.error THEN "error" ELSE "done"
          /\ aq'.stats.error_count = aq.stats.error_count
                + IF ev.error THEN Cardinality(FishOf(aq, ev.agent_id)) ELSE 0
    /\ (~\E ev \in StopEvents : Handles(ev)) =>
          /\ aq'.stats.error_count = aq.stats.error_count
          /\ \A u \in Uids :
                (HasFish(aq, u) /\ HasFish(aq', u) /\ FishWith(aq, u).status \in Live)
                => FishWith(aq', u).status \in Live

\* A fish that is done or in error is removed in the end, as is only such a
\* fish; a spawning fish does not stay spawning.
Retired ==
    /\ \A u \in Uids :
          (HasFish(aq, u) /\ FishWith(aq, u).status \in Over) ~> ~HasFish(aq, u)
    /\ \A u \in Uids :
          (HasFish(aq, u) /\ FishWith(aq, u).status = "spawning")
              ~> (~HasFish(aq, u) \/ FishWith(aq, u).status # "spawning")
    /\ [][\A u \in Uids : (HasFish(aq, u) /\ ~HasFish(aq', u))
                              => FishWith(aq, u).status \in Over]_vars

C13_SecondStopIsNoOp ==
    [][\A ev \in StopEvents : Handles(ev) =>
          /\ \A u \in Uids :
                (HasFish(aq, u) /\ FishWith(aq, u).agent_id = ev.agent_id
                    /\ FishWith(aq, u).status \in Over)
                => /\ HasFish(aq', u)
                   /\ FishWith(aq', u).status = FishWith(aq, u).status
                   /\ FishWith(aq', u).speed = FishWith(aq, u).speed
          /\ (\A i \in FishOf(aq, ev.agent_id) : aq.fishes[i].status \in Over)
                => aq'.stats.error_count = aq.stats.error_count
      ]_vars

\* C14: whatever events and frames have been handled, the main fish is
\* there, alive and working.
C14_MainFishPersists ==
    /\ aq.main_fish.uid = 0
    /\ aq.main_fish.agent_id = "__main__"
    /\ aq.main_fish.alive
    /\ aq.main_fish.status = "working"

\* An agent_start and an agent_stop that carry the id of the main fish have
\* been handled, and frames have passed since.
C14_Witness ==
    /\ C14_MainFishPersists
    /\ \E i \in DOMAIN aq.fishes :
          /\ aq.fishes[i].agent_id = "__main__"
          /\ aq.fishes[i].status \in Over
          /\ aq.fishes[i].x > 0

\* The entities of the aquarium: every fish, bubble, creature, coral and
\* ambient creature with all its fields.
Entities(a) ==
    <<a.fishes, a.main_fish, a.tool_bubbles, a.creatures, a.task_corals,
      a.tool_creatures, a.ambient_creatures>>

ToolEnds == {ev \in ToolEvents : ev.kind = "tool_end"}

\* C15: a tool_end whose (agent_id, tool_name) has no creature that is not
\* leaving, and a tool_end of a tool that is not an MCP tool, leave every
\* entity as it was.
C15_UnmatchedToolEndNoOp ==
    [][\A ev \in ToolEnds :
          (/\ Handles(ev)
           /\ \/ ActiveCreatures(aq, ev.agent_id, ev.tool_name) = {}
              \/ ~StartsWith(ev.tool_name, "mcp__"))
          => Entities(aq') = Entities(aq)
      ]_vars

\* One MCP tool call was started, two tool_end events of that tool have been
\* handled (the second found its creature leaving, or one was of the other
\* agent), and the creature is leaving.
C15_Witness ==
    /\ aq.total_tools = 1
    /\ Len(aq.creatures) = 1
    /\ aq.creatures[1].leaving
    /\ Len(aq.event_log) = 3
    /\ \A i \in 2..3 : /\ aq.event_log[i].kind = "tool_end"
                       /\ aq.event_log[i].detail = <<"mcp__codex__codex", "ok">>

TaskEvents == {ev \in ToolEvents : ev.kind = "task_completed"}

\* C16: the corals hold at most one coral per task subject and every coral is
\* completed; a task_completed of a subject that has a coral adds no coral.
C16_OneCoralPerSubject ==
    /\ [](/\ \A i, j \in DOMAIN aq.task_corals :
                aq.task_corals[i].subject = aq.task_corals[j].subject => i = j
          /\ \A i \in DOMAIN aq.task_corals : aq.task_corals[i].completed)
    /\ [][\A ev \in TaskEvents :
             (Handles(ev) /\ CoralsOf(aq, ev.task_subject) # {})
             => aq'.task_corals = aq.task_corals
         ]_vars

\* Three task_completed events of two subjects have been handled and frames
\* have passed: one subject was repeated and there are two corals.
C16_Witness ==
    /\ Len(aq.event_log) = 3
    /\ \A i \in 1..3 : aq.event_log[i].kind = "task_completed"
    /\ {aq.event_log[i].detail : i \in 1..3} = {<<"task", "t1">>, <<"task", "t2">>}
    /\ Len(aq.task_corals) = 2
    /\ aq.tick > 0

MainToolStarts ==
    {ev \in ToolEvents : ev.kind = "tool_start" /\ ~StartsWith(ev.tool_name, "mcp__")}

\* C20: a tool_start of a tool that is not an MCP tool, whose agent_id is the
\* id of no fish, goes to the main fish: its last_tool becomes the caption of
\* the call and nothing else of it changes, one bubble is added one row above it
\* and between 2 cells behind and 5 cells ahead of it, total_tools and the
\* tool's count grow by one, and no tool creature and no fish is touched.
C20_UnknownAgentGoesToMain ==
    [][\A ev \in MainToolStarts :
          (Handles(ev) /\ FirstFishOf(aq, ev.agent_id) = 0)
          => /\ aq'.main_fish =
                    [aq.main_fish EXCEPT !.last_tool = Caption(ev.tool_name, ev.tool_name)]
             /\ Len(aq'.tool_bubbles) = Len(aq.tool_bubbles) + 1
             /\ LET b == aq'.tool_bubbles[Len(aq'.tool_bubbles)] IN
                   /\ b.x - aq.main_fish.x \in (-2 * Scale)..(5 * Scale)
                   /\ b.y = aq.main_fish.y - Scale
                   /\ b.tool_name = Caption(ev.tool_name, ev.tool_name)
             /\ aq'.total_tools = aq.total_tools + 1
             /\ aq'.stats.tool_counts[ev.tool_name] = aq.stats.tool_counts[ev.tool_name] + 1
             /\ aq'.tool_creatures = aq.tool_creatures
             /\ aq'.fishes = aq.fishes
             /\ aq'.creatures = aq.creatures
      ]_vars

\* Agent a1 has a fish, and the one tool call so far, of another agent,
\* put its caption on the main fish and left a1's fish without one.
C20_Witness ==
    /\ Len(aq.fishes) = 1
    /\ aq.fishes[1].last_tool = NoCaption
    /\ aq.main_fish.last_tool = Caption("Read", "Read")
    /\ aq.total_tools = 1
    /\ aq.stats.tool_counts["Read"] = 1
    /\ Len(aq.tool_bubbles) = 1
    /\ aq.tool_creatures = <<>>

\* The entries a step has recorded.
Recorded == aq'.stats.total_events - aq.stats.total_events

\* C17: the event log never holds more than 200 entries; recording keeps the
\* entries it does not drop in their order, drops the oldest ones and only as
\* many as the capacity requires, and a 201st entry drops exactly the oldest.
C17_LogKeepsLast200 ==
    /\ [](Len(aq.event_log) <= LogCap)
    /\ [][sent' = sent + 1 =>
            LET old == aq.event_log
                new == aq'.event_log
                dropped == Len(old) + Recorded - Len(new)
            IN /\ Recorded \in 1..2
               /\ Len(new) = Min({Len(old) + Recorded, LogCap})
               /\ \A i \in 1..(Len(new) - Recorded) : new[i] = old[i + dropped]
               /\ new[Len(new) - Recorded + 1].timestamp = sent'
               /\ (Len(old) = LogCap /\ Recorded = 1) =>
                     new = Append(Tail(old), new[Len(new)])
        ]_vars

\* A session without a milestone has been handled to its end: the log holds
\* 200 entries, the oldest of them the session's 4th event, the newest its
\* last.
C17_Witness ==
    /\ script.starts = 0
    /\ sent = SessionLen
    /\ Len(aq.event_log) = LogCap
    /\ aq.event_log[1].timestamp = SessionExtra + 1
    /\ aq.event_log[LogCap].timestamp = SessionLen

\* The milestone entries of a log, and the last n entries of a sequence.
MilestoneEntries(log) == {i \in DOMAIN log : log[i].kind = "milestone"}
NewestOf(xs, n) == SubSeq(xs, Len(xs) - n + 1, Len(xs))

ToolsMilestoneEntry ==
    EventLogEntry(WallClock, "milestone", <<"100 tools reached! Ocean comes alive!">>)

\* C18: in a session handled event by event, the step that handles the 100th
\* counted tool call records the event and right after it one milestone entry,
\* and adds 5 jellyfish; every other step, the 101st tool call and the later
\* ones included, records its event only and leaves the ambient creatures
\* alone.
C18_ToolsMilestoneOnce ==
    [][sent' = sent + 1 =>
          IF aq.total_tools = ToolsMilestone - 1 /\ aq'.total_tools = ToolsMilestone
          THEN /\ Recorded = 2
               /\ aq'.event_log[Len(aq'.event_log) - 1].timestamp = sent'
               /\ aq'.event_log[Len(aq'.event_log)] = ToolsMilestoneEntry
               /\ Cardinality(MilestoneEntries(aq'.event_log)) = 1
               /\ aq'.ambient_creatures =
                     aq.ambient_creatures \o Repeat(AmbientCreature("jellyfish"), JellyfishBurst)
          ELSE /\ Recorded = 1
               /\ aq'.event_log[Len(aq'.event_log)].kind # "milestone"
               /\ aq'.ambient_creatures = aq.ambient_creatures
      ]_vars

\* A session of tool calls only has been handled to its end: more than 100
\* tool calls are counted, the log holds one milestone entry, and the 5
\* jellyfish of the milestone are the only ambient creatures added.
C18_Witness ==
    /\ sent = SessionLen
    /\ aq.total_tools = SessionLen
    /\ Cardinality(MilestoneEntries(aq.event_log)) = 1
    /\ Len(aq.ambient_creatures) = 5 + JellyfishBurst
    /\ NewestOf(aq.ambient_creatures, JellyfishBurst)
         = Repeat(AmbientCreature("jellyfish"), JellyfishBurst)

AgentsMilestoneEntry ==
    EventLogEntry(WallClock, "milestone", <<"10 agents spawned! Fish school appears!">>)

EntriesOf(log, entry) == {i \in DOMAIN log : log[i] = entry}

\* C19: whatever the interleaving of the threads that handle events, each
\* milestone is recorded at most once and adds its ambient creatures at most
\* once: 5 jellyfish for 100 tool calls, 4 fish for 10 agents.
C19_MilestoneFiresOnce ==
    /\ Cardinality(EntriesOf(aq.event_log, ToolsMilestoneEntry)) <= 1
    /\ Cardinality(EntriesOf(aq.event_log, AgentsMilestoneEntry)) <= 1
    /\ Len(aq.ambient_creatures) <=
          Len(NewAquarium(2, 2, 1, Tenths(4)).ambient_creatures)
          + (IF "tools_100" \in aq.milestones_triggered THEN JellyfishBurst ELSE 0)
          + (IF "agents_10" \in aq.milestones_triggered THEN FishSchool ELSE 0)

\* C21: a step of a thread other than the render thread leaves every entity
\* collection of the aquarium as it was; what a demo thread has to tell goes
\* into the server's queue.
C21_OnlyRenderWrites ==
    [][tpc'["demo"] # tpc["demo"] => Entities(aq') = Entities(aq)]_vars

\* Once the quit key has been read or an exception has left the loop, the
\* main thread goes on to the finally block and the end only.
LoopEnded ==
    Driver \in {"key_q", "quit", "raised"} =>
        /\ tpc'["render"] \in (IF Driver = "key_q" THEN {"key_q", "quit"} ELSE {Driver, "exit"})
        /\ aq' = aq
        /\ delivered' = delivered
        /\ (queue' # queue => Len(queue') > Len(queue))

\* C22: when run_tui is over after the loop of run() ended, by the quit key
\* or by an exception of the constructor or of the loop, server.stop() has
\* been called; and once the quit key has been read, the loop ends with no
\* event drained or handled in between or afterwards.
C22_StopBeforeExit ==
    /\ []((Driver = "exit" /\ mainPc # "start_failed") => stopCalls > 0)
    /\ [][LoopEnded]_vars

\* The loop has handled events and drawn a frame, then the quit key ended it
\* with an event still in the queue, stop() ran and run_tui is over.
C22_Witness ==
    /\ Driver = "exit"
    /\ stopCalls = 1
    /\ mainPc = "stopped"
    /\ aq.stats.total_events > 0
    /\ aq.tick > 0
    /\ queue # <<>>

ToolStarts == {ev \in ToolEvents : ev.kind = "tool_start"}

\* The creature each tool name of the tool events stands for.
CreatureFor ==
    [t \in {"Read", "mcp_x", "mcp__codex__codex", "mcp__notion__search"} |->
        CASE t = "mcp__codex__codex" -> "sailboat"
          [] t = "mcp__notion__search" -> "dolphin"
          [] OTHER -> "none"]

\* C23: a tool_start of an MCP tool appends one creature that carries the
\* event's agent_id and tool_name, a sailboat for a mcp__codex__ tool and a
\* dolphin for any other, and no bubble; a tool_start of any other tool appends
\* one bubble and no creature; both add one to total_tools.
C23_ToolStartCreatesOne ==
    [][\A ev \in ToolStarts : Handles(ev) =>
          /\ aq'.total_tools = aq.total_tools + 1
          /\ IF CreatureFor[ev.tool_name] # "none"
             THEN /\ aq'.tool_bubbles = aq.tool_bubbles
                  /\ Len(aq'.creatures) = Len(aq.creatures) + 1
                  /\ SubSeq(aq'.creatures, 1, Len(aq.creatures)) = aq.creatures
                  /\ LET c == aq'.creatures[Len(aq'.creatures)] IN
                        /\ c.agent_id = ev.agent_id
                        /\ c.tool_name = ev.tool_name
                        /\ c.creature_type = CreatureFor[ev.tool_name]
                        /\ ~c.leaving
             ELSE /\ aq'.creatures = aq.creatures
                  /\ Len(aq'.tool_bubbles) = Len(aq.tool_bubbles) + 1
                  /\ SubSeq(aq'.tool_bubbles, 1, Len(aq.tool_bubbles)) = aq.tool_bubbles
      ]_vars

\* Three tool calls have been handled, of a codex tool, of another MCP tool
\* and of a plain tool: there are a sailboat, a dolphin and one bubble.
C23_Witness ==
    /\ aq.total_tools = 3
    /\ Len(aq.creatures) = 2
    /\ {aq.creatures[i].creature_type : i \in 1..2} = {"sailboat", "dolphin"}
    /\ Len(aq.tool_bubbles) = 1
    /\ aq.tool_bubbles[1].tool_name \in {Caption("Read", "Read"), Caption("mcp_x", "mcp_x")}

\* The art of each agent type: 0 small, 1 medium, 2 large, 3 decorated.
ArtClass ==
    [t \in AgentTypes |->
        CASE t = "Explore" -> 0
          [] t \in {"Plan", "code-reviewer", "code-simplifier"} -> 2
          [] t \in {"feature-dev:code-architect", "superpowers:brainstorm"} -> 3
          [] OTHER -> 1]

\* C24: an agent_start appends one fish with the event's agent_id, spawning,
\* with the art of its agent_type, and adds one to total_agents; an agent_stop
\* without error leaves every fish of its agent_id done.
C24_AgentStartAddsOne ==
    [][\A ev \in TypeEvents : Handles(ev) =>
          /\ ev.kind = "agent_start" =>
                /\ aq'.total_agents = aq.total_agents + 1
                /\ Len(aq'.fishes) = Len(aq.fishes) + 1
                /\ SubSeq(aq'.fishes, 1, Len(aq.fishes)) = aq.fishes
                /\ LET f == aq'.fishes[Len(aq'.fishes)] IN
                      /\ f.agent_id = ev.agent_id
                      /\ f.status = "spawning"
                      /\ f.art_idx = ArtClass[ev.agent_type]
          /\ (ev.kind = "agent_stop" /\ ~ev.error) =>
                /\ Len(aq'.fishes) = Len(aq.fishes)
                /\ \A i \in FishOf(aq, ev.agent_id) : aq'.fishes[i].status = "done"
      ]_vars

\* An agent of a decorated type has started and, frames later, stopped
\* without error: its fish is done.
C24_Witness ==
    /\ aq.total_agents = 1
    /\ aq.tick > 0
    /\ Len(aq.fishes) = 1
    /\ aq.fishes[1].agent_id = "a1"
    /\ aq.fishes[1].art_idx = 3
    /\ aq.fishes[1].label = "superpowers:brainstorm"
    /\ aq.fishes[1].status = "done"

\* The event kind of each hook the sender knows.
HookKind ==
    [h \in {"SubagentStart", "SubagentStop", "PreToolUse", "PostToolUse",
            "PostToolUseFailure", "TaskCompleted"} |->
        CASE h = "SubagentStart" -> "agent_start"
          [] h = "SubagentStop" -> "agent_stop"
          [] h = "PreToolUse" -> "tool_start"
          [] h \in {"PostToolUse", "PostToolUseFailure"} -> "tool_end"
          [] h = "TaskCompleted" -> "task_completed"]

HookName == Get(script, "hook_event_name", "")
Built == build_event_from_hook(script)

\* What the server has of the sender: the events in its queue and the events
\* the render loop has drained.
Arrived == {queue[i].ev : i \in DOMAIN queue} \cup {lastResult[i].ev : i \in DOMAIN lastResult}

\* C25: for each of the six hooks the record built has the hook's event
\* kind, a SubagentStop carries the hook's error or false, a PostToolUse
\* success true and a PostToolUseFailure success false; for any other hook
\* nothing is built and nothing is sent; and the server decodes every record
\* sent into an event of the record's kind.
C25_HookBecomesEvent ==
    IF HookName \in DOMAIN HookKind
    THEN /\ Built.event = HookKind[HookName]
         /\ HookName = "SubagentStop" => Built.error = Get(script, "error", FALSE)
         /\ HookName = "PostToolUse" => Built.success
         /\ HookName = "PostToolUseFailure" => ~Built.success
         /\ parse_event(Rec("object", Built, FALSE)).tag = "event"
         /\ \A ev \in Arrived :
               /\ ev.kind = HookKind[HookName]
               /\ ev.success = (HookName # "PostToolUseFailure")
               /\ ev.error = Get(script, "error", FALSE)
         /\ hres[1] # "crashed"
    ELSE /\ Built = NoRecord
         /\ conn[1] = "new"
         /\ Arrived = {}

\* The record of a failed tool call has reached the server's queue as a
\* tool_end event without success.
C25_Witness ==
    /\ HookName = "PostToolUseFailure"
    /\ sent = 1
    /\ Len(queue) = 1
    /\ queue[1].ev.kind = "tool_end"
    /\ ~queue[1].ev.success
    /\ queue[1].ev.tool_name = "Bash"

\* C26: a fish that is done or in error is done or in error after every
\* step that leaves it in the aquarium, whatever the event or the frame.
C26_TerminalStaysTerminal ==
    [][\A u \in Uids :
          (HasFish(aq, u) /\ FishWith(aq, u).status \in Over /\ HasFish(aq', u))
          => FishWith(aq', u).status \in Over
      ]_vars

\* A fish was stopped with an error, stopped once more without, and has swum
\* on for a frame or more: it is done.
C26_Witness ==
    /\ Len(aq.fishes) = 1
    /\ aq.fishes[1].status = "done"
    /\ aq.stats.error_count = 1
    /\ aq.stats.total_events = 3
    /\ aq.fishes[1].x > -10 * Scale + Tenths(8)

\* C27: for every agent_id and tool_name, at most one creature of the pair is
\* not leaving.
C27_OneActivePerPair ==
    \A i, j \in DOMAIN aq.creatures :
        (/\ aq.creatures[i].agent_id = aq.creatures[j].agent_id
         /\ aq.creatures[i].tool_name = aq.creatures[j].tool_name
         /\ ~aq.creatures[i].leaving
         /\ ~aq.creatures[j].leaving)
        => i = j

CreatureEnds == {ev \in CreatureEvents : ev.kind = "tool_end"}

\* The creatures that are leaving, by index.
Leaving(a) == {i \in DOMAIN a.creatures : a.creatures[i].leaving}

\* Where a creature is after one frame, and whether that is out of the
\* horizontal bounds.
NextX(c) == c.x + c.speed * c.direction
OutOfBounds(x) == x > (Width + 15) * Scale \/ x < -15 * Scale

\* A tool_end with a match: the first creature of the pair that is not
\* leaving turns leaving, every other creature stays as it was.
EndTakesFirst ==
    \A ev \in CreatureEnds :
        LET active == ActiveCreatures(aq, ev.agent_id, ev.tool_name) IN
        (Handles(ev) /\ active # {}) =>
            /\ Len(aq'.creatures) = Len(aq.creatures)
            /\ aq'.creatures[Min(active)].leaving
            /\ \A i \in DOMAIN aq.creatures :
                  i # Min(active) => aq'.creatures[i] = aq.creatures[i]

\* An event leaves a leaving creature leaving and on its course.
EventKeepsLeaving ==
    Recorded > 0 =>
        \A i \in Leaving(aq) :
            /\ i \in Leaving(aq')
            /\ aq'.creatures[i].direction = aq.creatures[i].direction

\* A frame keeps every creature that is not leaving and turns none leaving;
\* a leaving creature moves on in its direction, and is removed in the frame
\* that takes it out of bounds.
FrameMovesLeaving ==
    (Recorded = 0 /\ aq'.creatures # aq.creatures) =>
        /\ Len(aq'.creatures) - Cardinality(Leaving(aq'))
              = Len(aq.creatures) - Cardinality(Leaving(aq))
        /\ Cardinality(Leaving(aq'))
              = Cardinality({j \in Leaving(aq) : ~OutOfBounds(NextX(aq.creatures[j]))})
        /\ \A i \in Leaving(aq') : \E j \in Leaving(aq) :
              /\ aq'.creatures[i].agent_id = aq.creatures[j].agent_id
              /\ aq'.creatures[i].tool_name = aq.creatures[j].tool_name
              /\ aq'.creatures[i].direction = aq.creatures[j].direction
              /\ aq'.creatures[i].x = NextX(aq.creatures[j])
              /\ ~OutOfBounds(aq'.creatures[i].x)

\* C28: a tool_end that matches an active creature by (agent_id, tool_name)
\* turns exactly one creature leaving, the first match that is not leaving; a
\* leaving creature never turns active again and never reverses its
\* direction; it is removed in the frame that takes it out of the horizontal
\* bounds, and while frames keep coming every leaving creature is removed.
C28_LeavingLeaves ==
    /\ [][EndTakesFirst /\ EventKeepsLeaving /\ FrameMovesLeaving]_vars
    /\ (Leaving(aq) # {}) ~> (Leaving(aq) = {})

\* Of two creatures of one pair the first is leaving and has swum on past the
\* column where an active one turns around; the second is still active.
C28_Witness ==
    /\ Len(aq.creatures) = 2
    /\ aq.creatures[1].tool_name = aq.creatures[2].tool_name
    /\ aq.creatures[1].leaving
    /\ ~aq.creatures[2].leaving
    /\ aq.creatures[1].direction = 1
    /\ aq.creatures[1].x > (Width - 3) * Scale

\* C29: no creature is leaving and jumping at once: a dolphin whose call ends
\* in the middle of a jump stops jumping in that step, and a leaving dolphin
\* starts no jump.
C29_NeverLeavingAndJumping ==
    \A i \in DOMAIN aq.creatures :
        ~(aq.creatures[i].leaving /\ aq.creatures[i].jumping)

\* A dolphin whose call ended in the middle of a jump: it is leaving, off the
\* depth it jumped from, with the jump's ticks short of its duration.
C29_Witness ==
    \E i \in DOMAIN aq.creatures :
        /\ aq.creatures[i].leaving
        /\ ~aq.creatures[i].jumping
        /\ aq.creatures[i].jump_duration = JumpDuration
        /\ aq.creatures[i].jump_tick > 0
        /\ aq.creatures[i].jump_tick < JumpDuration
        /\ aq.creatures[i].y < aq.creatures[i].jump_base_y

\* The sum of the per-tool counts.
RECURSIVE SumOver(_, _)
SumOver(f, S) ==
    IF S = {} THEN 0
    ELSE LET t == CHOOSE t \in S : TRUE IN f[t] + SumOver(f, S \ {t})

\* No counter of the session stats goes down.
CountersGrow ==
    /\ aq'.stats.total_events >= aq.stats.total_events
    /\ aq'.stats.error_count >= aq.stats.error_count
    /\ \A t \in ToolNames : aq'.stats.tool_counts[t] >= aq.stats.tool_counts[t]

\* The milestones a step fires.
Fired == Cardinality(aq'.milestones_triggered \ aq.milestones_triggered)

\* The original reading of C30: every handled event, whatever its kind, adds
\* exactly one entry to the log and one to total_events; no counter goes
\* down, and the per-tool counts add up to total_tools.
C30_OneEntryPerEvent ==
    /\ [][(sent' = sent + 1 => Recorded = 1) /\ CountersGrow]_vars
    /\ [](SumOver(aq.stats.tool_counts, ToolNames) = aq.total_tools)

\* C30: every handled event, whatever its kind, appends one entry of its own
\* kind to the log and adds one to total_events; a step in which a milestone
\* fires appends one milestone entry after it and counts one event more; no
\* counter goes down, and the per-tool counts add up to total_tools.
C30_EntryPerEventAndMilestone ==
    /\ [][/\ sent' = sent + 1 =>
                LET old == aq.event_log
                    new == aq'.event_log
                    kept == Len(new) - Recorded
                IN /\ Recorded = 1 + Fired
                   /\ Len(new) = Min({Len(old) + Recorded, LogCap})
                   /\ SubSeq(new, 1, kept) = NewestOf(old, kept)
                   /\ new[kept + 1].kind = ScriptEvent(script, sent').kind
                   /\ new[kept + 1].timestamp = sent'
                   /\ \A i \in (kept + 2)..Len(new) : new[i].kind = "milestone"
          /\ CountersGrow
        ]_vars
    /\ [](SumOver(aq.stats.tool_counts, ToolNames) = aq.total_tools)

\* The 100th tool call has just been handled: the log holds its entry and
\* the milestone's after it, and 101 events are counted.
C30_Witness ==
    /\ sent = ToolsMilestone
    /\ aq.total_tools = ToolsMilestone
    /\ aq.stats.total_events = ToolsMilestone + 1
    /\ aq.event_log[Len(aq.event_log)].kind = "milestone"
    /\ aq.event_log[Len(aq.event_log) - 1].kind = "tool_start"

\* The fish of the aquarium other than the first that carries agent_id.
LaterFishOf(a, agent_id) == FishOf(a, agent_id) \ {FirstFishOf(a, agent_id)}

\* C31: of several fish that share an agent_id an event naming the id touches
\* the first only: an agent_stop changes no later fish and counts at most one
\* error, a tool_start captions no later fish.
C31_FirstMatchOnly ==
    [][sent' = sent + 1 =>
          LET ev == ScriptEvent(script, sent') IN
          ev.kind \in {"agent_stop", "tool_start"} =>
              /\ aq'.stats.error_count <= aq.stats.error_count + 1
              /\ \A i \in LaterFishOf(aq, ev.agent_id) : aq'.fishes[i] = aq.fishes[i]
      ]_vars

\* C32: a handler thread holds the queue lock only at its append, the render
\* loop only inside drain_events, from the copy to the return; no thread
\* holds it in accept, recv or close.  Whoever takes the lock gives it back:
\* a lock held is free again later, while a client stalls or not.
C32_LockHeldBriefly ==
    /\ [](\A c \in Conns : lock = Handler(c) => hpc[c] = "append")
    /\ [](lock = Render => dpc \in {"copy", "clear", "return"})
    /\ [](lock \in {NoHolder, Render} \cup {Handler(c) : c \in Conns})
    /\ (lock # NoHolder) ~> (lock = NoHolder)

\* drain_events holds the lock while one client has stalled in the middle of
\* its payload and the handler of another waits with an event to append.
C32_Witness ==
    /\ lock = Render
    /\ dpc = "clear"
    /\ hpc[1] = "recv"
    /\ got[1] > 0
    /\ got[1] < Len(payload[1].recs)
    /\ hpc[2] = "lines"
    /\ idx[2] <= Len(lines[2])

\* A tool creature appears only in the step that handles a tool_start of a
\* plain tool by an agent that has a fish, and one at a time.
SpawnedBySubAgent ==
    Len(aq'.tool_creatures) > Len(aq.tool_creatures) =>
        /\ Len(aq'.tool_creatures) = Len(aq.tool_creatures) + 1
        /\ \E ev \in HelperEvents :
              /\ ev.kind = "tool_start"
              /\ FishOf(aq, ev.agent_id) # {}
              /\ mcp_tool_to_creature_type(ev.tool_name) = PyNone
              /\ \E r \in HelperDraws : r.spawn /\ aq' = handle_event(aq, ev, r)

\* A frame ages every tool creature by one update and keeps those younger
\* than 40 updates.
FrameAgesHelpers ==
    (Recorded = 0 /\ aq' # aq) =>
        /\ Len(aq'.tool_creatures)
              = Cardinality({i \in DOMAIN aq.tool_creatures :
                                aq.tool_creatures[i].age + 1 < ToolCreatureMaxAge})
        /\ \A j \in DOMAIN aq'.tool_creatures : \E i \in DOMAIN aq.tool_creatures :
              aq'.tool_creatures[j].age = aq.tool_creatures[i].age + 1

\* C33: a tool creature is spawned only by a tool_start of an agent that has a
\* fish, never for the main fish; its age counts its updates from 0, and none
\* is left after its 40th; every tool creature is removed while frames keep
\* coming, with or without a tool_end.
C33_HelpersAreShortLived ==
    /\ [][SpawnedBySubAgent /\ FrameAgesHelpers]_vars
    /\ [](\A i \in DOMAIN aq.tool_creatures :
             aq.tool_creatures[i].age \in 0..(ToolCreatureMaxAge - 1))
    /\ (aq.tool_creatures # <<>>) ~> (aq.tool_creatures = <<>>)

\* A tool creature has had 39 updates and is still there; no tool_end has
\* been handled.
C33_Witness ==
    /\ Len(aq.tool_creatures) = 1
    /\ aq.tool_creatures[1].age = ToolCreatureMaxAge - 1
    /\ \A i \in DOMAIN aq.event_log : aq.event_log[i].kind # "tool_end"

\* No fish and no creature of the lists has alive = False.
NoDead(a) ==
    /\ \A i \in DOMAIN a.fishes : a.fishes[i].alive
    /\ \A i \in DOMAIN a.creatures : a.creatures[i].alive

\* _process_events: the events of the queue go through _handle_event in the
\* order of the queue, each leaving its log entry, before anything moves.
EventsFirst ==
    (Driver = "events" /\ Driver' = "frame") =>
        /\ queue' = <<>>
        /\ aq'.tick = aq.tick
        /\ aq'.stats.total_events = aq.stats.total_events + Len(queue)
        /\ Len(aq'.event_log) = Len(aq.event_log) + Len(queue)
        /\ \A i \in 1..Len(queue) :
              aq'.event_log[Len(aq.event_log) + i].kind = queue[i].ev.kind
        /\ aq'.main_fish.x = aq.main_fish.x

\* The rest of the body: every entity is updated, the lists are pruned, and
\* the tick is counted, one per iteration; no event is handled here.
FrameLast ==
    (Driver = "frame" /\ Driver' = "getch") =>
        /\ aq'.tick = aq.tick + 1
        /\ aq'.event_log = aq.event_log
        /\ aq'.main_fish.x # aq.main_fish.x
        /\ NoDead(aq')

\* The world changes in these two steps only, and they follow each other.
LoopOrder ==
    /\ aq' # aq => Driver \in {"events", "frame"} /\ Driver' # Driver
    /\ (Driver' = "frame" /\ Driver # "frame") => Driver = "events"
    /\ (Driver' = "events" /\ Driver # "events") => Driver = "key_other"

C35_MalformedLineIsLocal ==
    \A c \in Conns :
       ( /\ hpc[c] = "closed"
         /\ hres[c] # "oserror"
         /\ \A i \in 1..Len(payload[c].recs) : ~payload[c].recs[i].usep )
       => \A i \in 1..Len(payload[c].recs) :
             ( /\ WellFormed(payload[c].recs[i])
               /\ (i < Len(payload[c].recs) \/ payload[c].term) )
             => Appended(c, i)

\* C36: a fish leaves the aquarium only when it is done or in error and the
\* update that removes it has taken it past the right edge of the screen; a
\* spawning or working fish stays through every event and every frame.
C36_OnlyFinishedFishLeave ==
    [][\A u \in Uids :
          (HasFish(aq, u) /\ ~HasFish(aq', u)) =>
              /\ FishWith(aq, u).status \in Over
              /\ FishWith(aq, u).x + FishWith(aq, u).speed > (Width + 10) * Scale
      ]_vars

\* An agent was stopped without error, its fish has swum out and is gone,
\* while the main fish swims on.
C36_Witness ==
    /\ aq.total_agents = 1
    /\ aq.fishes = <<>>
    /\ aq.stats.error_count = 0
    /\ \E i \in DOMAIN aq.event_log : aq.event_log[i].detail = <<"Explore", "done">>

\* The thread is at a `with self.lock`.
AtAcquire(t) == tpc[t] # <<>> /\ Head(tpc[t]).op = "acquire"

\* C37: no thread comes to a `with self.lock` while it holds the lock, so the
\* thread that holds the lock can always go on and the lock is never held
\* for good.
C37_NoReentrantAcquire ==
    \A t \in Threads :
        /\ AtAcquire(t) => aq.lock # t
        /\ aq.lock = t => (tpc[t] # <<>> /\ Head(tpc[t]).op \in {"call", "release"})

\* The render loop is inside its first locked block, about to build the list
\* of selectable fish, while a lifecycle thread waits for the lock in an
\* event handler.
C37_Witness ==
    /\ aq.lock = "render"
    /\ tpc["render"] # <<>>
    /\ Head(tpc["render"]).f = {"_get_selectable_fish_unlocked"}
    /\ AtAcquire("demo")

\* C38: whenever no thread is inside _handle_event, total_events counts every
\* event recorded, and the log holds the entries of the last 200 events (the
\* i-th event of a session is stamped i), every one of them.
C38_NoLostRecord ==
    (\A t \in Threads : tpc[t].pc = "idle") =>
        /\ aq.stats.total_events = sent
        /\ {aq.event_log[i].timestamp : i \in DOMAIN aq.event_log}
               = (sent - Min({sent, LogCap}) + 1) .. sent

\* C39: a working fish that is at most one step beyond the turn-around
\* margins before a frame (x >= 5 - speed and x <= w - fw - 5 + speed) is so
\* after it, whether or not the frame turns it around at random.
InArea(fish) ==
    /\ fish.x >= LeftMargin - fish.speed
    /\ fish.x <= RightMargin(fish) + fish.speed

C39_WorkingStaysInArea ==
    [][\A i \in DOMAIN aq.fishes : \A j \in DOMAIN aq'.fishes :
          (/\ aq.fishes[i].uid = aq'.fishes[j].uid
           /\ aq.fishes[i].status = "working"
           /\ aq'.fishes[j].status = "working"
           /\ InArea(aq.fishes[i]))
          => InArea(aq'.fishes[j])]_vars

\* C40: a step of the loop that is not the handling of a key (an event, a
\* frame) leaves the selection on the same fish as long as that fish is still
\* selectable.  SelectedUid is the uid of the fish the index points at, -1
\* if it points at none.
SelectedUid(a) ==
    LET selectable == get_selectable_fish(a)
    IN IF 0 <= a.selected_fish_idx /\ a.selected_fish_idx < Len(selectable)
       THEN selectable[a.selected_fish_idx + 1].uid
       ELSE -1

SelectableUids(a) ==
    {get_selectable_fish(a)[i].uid : i \in DOMAIN get_selectable_fish(a)}

C40_SelectionFollowsEntity ==
    [][(/\ tpc'["render"] # "key"
        /\ SelectedUid(aq) # -1
        /\ SelectedUid(aq) \in SelectableUids(aq'))
       => SelectedUid(aq') = SelectedUid(aq)]_vars

====
